---- MODULE Spec2Model ----
(***************************************************************************)
(* Subscription lifecycle of zero2prod: the handlers `subscribe`           *)
(* (routes/subscriptions.rs), `confirm` (routes/subscriptions_confirm.rs)  *)
(* and `publish_newsletter` (routes/newsletters.rs) running concurrently   *)
(* over one Postgres store and one mail API.                               *)
(*                                                                         *)
(* Strings are sequences of one-character strings.  The arrival of a       *)
(* request, with the synchronous code up to the first `.await`, is one     *)
(* step of the model, and so is every `.await` of a handler, with the      *)
(* synchronous code that follows it up to the next one.                    *)
(***************************************************************************)
EXTENDS Integers, Sequences, FiniteSets, TLC

\* Number of handler invocations (HTTP requests) served in one behaviour.
NumProcs == 3
Procs == 1..NumProcs

\* subscriber_name.rs:13, the grapheme limit of a name.
MaxNameGraphemes == 256
\* subscriptions.rs:173, the length of a confirmation token.
TokenLen == 25

---------------------------------------------------------------------------
(* Identity validators                                                     *)

\* subscriber_name.rs:9
ForbiddenCharacters == {"/", "(", ")", "\"", "<", ">", "\\", "{", "}"}

\* char::is_whitespace, as used by str::trim, on the characters of the model.
IsWhitespace(c) == c \in {" ", "\t", "\n", "\r"}

\* Code points that extend the previous grapheme cluster (U+0310 is the
\* combining candrabindu the unit test of subscriber_name.rs uses).
IsExtend(c) == c \in {"U+0310", "U+0301"}

\* Control characters: a cluster ends before and after each of them, except
\* inside the pair CR LF.
IsControl(c) == c \in {"\t", "\n", "\r"}

\* s.graphemes(true).count(): extended grapheme clusters of s.  A cluster
\* starts at the first character and at every character that neither extends
\* the one before it nor is the LF of a CR LF.
GraphemeCount(s) ==
    Cardinality({i \in 1..Len(s) :
        \/ i = 1
        \/ ~ \/ s[i - 1] = "\r" /\ s[i] = "\n"
             \/ IsExtend(s[i]) /\ ~IsControl(s[i - 1])})

Ok(v) == [ok |-> TRUE, value |-> v]
Err(e) == [ok |-> FALSE, error |-> e]

\* {:?} of forbidden_characters, subscriber_name.rs:9 and 16: the array as
\* the Debug of [char; 9] writes it.
Debug_forbidden_characters ==
    "['/', '(', ')', '\"', '<', '>', '\\\\', '{', '}']"

\* A parse that measures the name in characters, not in grapheme clusters.
SubscriberName_parse_counting_chars(s) ==
    IF \A i \in 1..Len(s) : IsWhitespace(s[i])
    THEN Err(s \o <<" is empty or whitespace">>)
    ELSE IF Len(s) > MaxNameGraphemes
    THEN Err(s \o <<" is longer than 256 characters">>)
    ELSE IF \E i \in 1..Len(s) : s[i] \in ForbiddenCharacters
    THEN Err(s \o <<" contains forbidden characters: ", Debug_forbidden_characters>>)
    ELSE Ok(s)

\* A parse that tests the name for emptiness without trimming it.
SubscriberName_parse_untrimmed(s) ==
    IF s = <<>>
    THEN Err(s \o <<" is empty or whitespace">>)
    ELSE IF GraphemeCount(s) > MaxNameGraphemes
    THEN Err(s \o <<" is longer than 256 characters">>)
    ELSE IF \E i \in 1..Len(s) : s[i] \in ForbiddenCharacters
    THEN Err(s \o <<" contains forbidden characters: ", Debug_forbidden_characters>>)
    ELSE Ok(s)

\* SubscriberName::parse, subscriber_name.rs:8-20.  The message of an Err is
\* the name followed by what is wrong with it (format!, lines 12, 14, 16).
SubscriberName_parse(s) ==
    IF \A i \in 1..Len(s) : IsWhitespace(s[i])
    THEN Err(s \o <<" is empty or whitespace">>)
    ELSE IF GraphemeCount(s) > MaxNameGraphemes
    THEN Err(s \o <<" is longer than 256 characters">>)
    ELSE IF \E i \in 1..Len(s) : s[i] \in ForbiddenCharacters
    THEN Err(s \o <<" contains forbidden characters: ", Debug_forbidden_characters>>)
    ELSE Ok(s)

\* rand::distributions::Alphanumeric (subscriptions.rs:6, 171): a-z, A-Z, 0-9.
Alphanumeric ==
    {"a", "b", "c", "d", "e", "f", "g", "h", "i", "j", "k", "l", "m",
     "n", "o", "p", "q", "r", "s", "t", "u", "v", "w", "x", "y", "z",
     "A", "B", "C", "D", "E", "F", "G", "H", "I", "J", "K", "L", "M",
     "N", "O", "P", "Q", "R", "S", "T", "U", "V", "W", "X", "Y", "Z",
     "0", "1", "2", "3", "4", "5", "6", "7", "8", "9"}

\* The characters of the local part of an address, besides letters and digits
\* (the atext of RFC 5322, 3.2.3; its grave accent is not a character of the
\* strings of the model).
AtextSpecials ==
    {"!", "#", "$", "%", "&", "'", "*", "+", "/", "=", "?", "^", "_", "{", "|",
     "}", "~", "-"}

\* The letters and digits of an address.
EmailLetDig == Alphanumeric

\* The longest label of a domain (RFC 1035, 2.3.4).
MaxEmailLabel == 63

\* The local part of an address: one or more atext characters and dots.
IsEmailUser(u) ==
    /\ u # <<>>
    /\ \A i \in 1..Len(u) : u[i] \in EmailLetDig \cup AtextSpecials \cup {"."}

\* The domain of an address: labels separated by single dots, each of 1 to 63
\* letters, digits and hyphens, with no hyphen at either end of a label.
IsEmailDomain(d) ==
    /\ d # <<>>
    /\ \A i \in 1..Len(d) : d[i] \in EmailLetDig \cup {"-", "."}
    /\ d[1] \in EmailLetDig
    /\ d[Len(d)] \in EmailLetDig
    /\ \A i \in 2..(Len(d) - 1) :
         d[i] = "." => d[i - 1] \in EmailLetDig /\ d[i + 1] \in EmailLetDig
    /\ \A i \in 1..(Len(d) - MaxEmailLabel) :
         \E j \in i..(i + MaxEmailLabel) : d[j] = "."

\* SubscriberEmail::parse (domain/subscriber_email.rs), the standards-based
\* grammar of an address: the string is cut at its last "@" into a local part
\* and a domain, and both must be well formed.  The text of the error is not
\* fixed by the specification.
SubscriberEmail_parse(s) ==
    LET ats == {i \in 1..Len(s) : s[i] = "@"} IN
    IF ats = {}
    THEN Err(<<"is not a valid subscriber email">>)
    ELSE LET at == CHOOSE i \in ats : \A j \in ats : j <= i
         IN IF /\ IsEmailUser(SubSeq(s, 1, at - 1))
               /\ IsEmailDomain(SubSeq(s, at + 1, Len(s)))
            THEN Ok(s)
            ELSE Err(<<"is not a valid subscriber email">>)

\* A conversion that checks the name only.
NewSubscriber_try_from_unchecked_email(value) ==
    LET name == SubscriberName_parse(value.name) IN
    IF ~name.ok THEN Err(name.error)
    ELSE Ok([name |-> name.value, email |-> value.email])

\* A conversion that parses the name field a second time, as the address.
NewSubscriber_try_from_name_as_email(value) ==
    LET name == SubscriberName_parse(value.name) IN
    IF ~name.ok THEN Err(name.error)
    ELSE LET email == SubscriberEmail_parse(value.name) IN
         IF ~email.ok THEN Err(email.error)
         ELSE Ok([name |-> name.value, email |-> email.value])

\* impl TryFrom<FormData> for NewSubscriber, subscriptions.rs:24-28: the name
\* is parsed first, `?` returns its error before the email is looked at.
NewSubscriber_try_from(value) ==
    LET name == SubscriberName_parse(value.name) IN
    IF ~name.ok THEN Err(name.error)
    ELSE LET email == SubscriberEmail_parse(value.email) IN
         IF ~email.ok THEN Err(email.error)
         ELSE Ok([name |-> name.value, email |-> email.value])

---------------------------------------------------------------------------
(* Inputs of the model                                                     *)

Str_le_guin == <<"l", "e", " ", "g">>
Str_blank == <<" ">>
Str_ursula == <<"u", "@", "g">>
Str_bob == <<"b", "@", "g">>
Str_not_an_email == <<"n", "o">>
Str_legacy_email == <<"o", "l", "d">>

\* The form bodies POSTed to /subscriptions (tests/api/subscriptions.rs:10,
\* 69-73): two valid ones, one with a blank name, one with a malformed address.
Forms ==
    {[name |-> Str_le_guin, email |-> Str_ursula],
     [name |-> Str_le_guin, email |-> Str_bob],
     [name |-> Str_blank, email |-> Str_ursula],
     [name |-> Str_le_guin, email |-> Str_not_an_email]}

\* A lighter load of requests: one form that passes and one that does not.
LightForms ==
    {[name |-> Str_le_guin, email |-> Str_bob],
     [name |-> Str_blank, email |-> Str_ursula]}

\* The outputs of thread_rng().sample(Alphanumeric) the model draws from: each
\* stream is longer than a token, so that take(25) cuts it.
RngStreams ==
    {[i \in 1..(TokenLen + 1) |-> IF i % 2 = 1 THEN c[1] ELSE c[2]] :
        c \in {<<"a", "7">>, <<"Z", "0">>}}

\* A generator without take(25): it collects every sample it is given.
generate_subscriptions_token_without_take(rng) == rng

\* generate_subscriptions_token, subscriptions.rs:169-175: the first 25
\* samples of the generator.
generate_subscriptions_token(rng) == SubSeq(rng, 1, TokenLen)

Str_not_a_real_token == <<"n", "o", "t">>

\* The subscription_token query parameters presented to /subscriptions/confirm:
\* a token that the generator can draw and a string that it cannot.
Parameters ==
    {generate_subscriptions_token([i \in 1..(TokenLen + 1) |->
                                      IF i % 2 = 1 THEN "a" ELSE "7"]),
     Str_not_a_real_token}

\* A lighter load of requests: the token of a link only.
LightParameters == Parameters \ {Str_not_a_real_token}

\* The strings over an alphabet, up to a length.
Strings(alphabet, n) == UNION {[1..k -> alphabet] : k \in 0..n}

\* A string made of a unit repeated: str::repeat.
Repeat(unit, times) ==
    [i \in 1..(Len(unit) * times) |-> unit[((i - 1) % Len(unit)) + 1]]

\* The names SubscriberName::parse is called with: every short string over a
\* letter, white space, a combining mark and the forbidden characters, and the
\* long names at the limit (subscriber_name.rs:37, 43: 256 and 257 clusters).
MaxNameLen == 3
NameAlphabet == {"a", " ", "\n", "\r", "U+0310"} \cup ForbiddenCharacters

LongNames ==
    {Repeat(<<"a", "U+0310">>, 256),
     Repeat(<<"a", "U+0310">>, 257),
     Repeat(<<"a">>, 256),
     Repeat(<<"a">>, 257),
     <<"a">> \o Repeat(<<"\r", "\n">>, 255),
     <<"a">> \o Repeat(<<"\r", "\n">>, 256),
     Repeat(<<"a">>, 255) \o <<"}">>,
     <<" ">> \o Repeat(<<"a">>, 254) \o <<" ">>}

Names == Strings(NameAlphabet, MaxNameLen) \cup LongNames \cup {Str_le_guin}

\* The addresses SubscriberEmail::parse is called with.
MaxEmailLen == 4
EmailAlphabet == {"u", "g", "@", ".", "-", " "}
Emails == Strings(EmailAlphabet, MaxEmailLen) \cup {Str_not_an_email}

\* The forms the validation of subscribe is called with: a valid name, a blank
\* one and an empty one, with every address.
WideForms == {[name |-> n, email |-> e] : n \in {Str_le_guin, Str_blank, <<>>}, e \in Emails}

\* The sample streams generate_subscriptions_token is called with: the ones of
\* the handlers, and one per alphanumeric character, of several lengths.
WideRngStreams ==
    RngStreams \cup {[i \in 1..(TokenLen + k) |-> c] : c \in Alphanumeric, k \in 0..2}

\* The JSON body POSTed to /newsletters (BodyData, newsletters.rs:11-20).
BodyData == [title |-> "title", content |-> [html |-> "<p>body</p>", text |-> "body"]]

\* ApplicationBaseUrl, startup.rs:19.
ApplicationBaseUrl == "http://127.0.0.1"

\* What the mail API answers to one POST /email: a status, or nothing before
\* the client's timeout (email_client.rs:20-22).
MailAnswers == {"200", "500", "timeout"}

---------------------------------------------------------------------------
(* State                                                                   *)

VARIABLES
    subscriptions,        \* committed rows of table subscriptions
    subscription_tokens,  \* committed rows of table subscription_tokens
    email_server,         \* the requests the mail API received, in order
    pc,                   \* the await each invocation is stopped at
    request,              \* the input of each invocation
    transaction,          \* the sqlx Transaction each invocation holds
    locals,               \* the local variables of each invocation
    response              \* the Result each invocation returned

store == <<subscriptions, subscription_tokens>>
vars == <<subscriptions, subscription_tokens, email_server, pc, request,
          transaction, locals, response>>

NoTransaction == [open |-> FALSE, subscriptions |-> {}, subscription_tokens |-> {}]
NoRequest == [handler |-> "none"]
NoResponse == [kind |-> "none", context |-> <<>>, cause |-> ""]
NoLocals ==
    [new_subscriber |-> <<>>, subscriber_id |-> 0, subscription_token |-> <<>>,
     subscribers |-> <<>>, next |-> 1]

\* A fresh database (tests/api/helpers.rs:150-168) and no request served yet.
Init ==
    /\ subscriptions = {}
    /\ subscription_tokens = {}
    /\ email_server = <<>>
    /\ pc = [p \in Procs |-> "idle"]
    /\ request = [p \in Procs |-> NoRequest]
    /\ transaction = [p \in Procs |-> NoTransaction]
    /\ locals = [p \in Procs |-> NoLocals]
    /\ response = [p \in Procs |-> NoResponse]

\* A database that an earlier deployment has written to: a confirmed subscriber
\* stored under a looser address check than today's (the case
\* newsletters.rs:66-71 handles), with the token it was confirmed with.
LegacySubscriptions ==
    {[id |-> 100, email |-> Str_legacy_email, name |-> Str_le_guin,
      subscribed_at |-> 0, status |-> "confirmed"]}

LegacyTokens ==
    {[subscription_token |-> [i \in 1..TokenLen |-> "b"], subscriber_id |-> 100]}

\* A database that already holds a subscriber who confirmed with the link of
\* an earlier request: the state after one subscribe and one confirm.
EarlierSubscriptions ==
    {[id |-> 101, email |-> Str_ursula, name |-> Str_le_guin,
      subscribed_at |-> 0, status |-> "confirmed"]}

EarlierTokens ==
    {[subscription_token |-> [i \in 1..TokenLen |-> "c"], subscriber_id |-> 101]}

InitEarlier ==
    /\ subscriptions = EarlierSubscriptions
    /\ subscription_tokens = EarlierTokens
    /\ email_server = <<>>
    /\ pc = [p \in Procs |-> "idle"]
    /\ request = [p \in Procs |-> NoRequest]
    /\ transaction = [p \in Procs |-> NoTransaction]
    /\ locals = [p \in Procs |-> NoLocals]
    /\ response = [p \in Procs |-> NoResponse]

\* The database of the earlier deployment: the subscriber with the address
\* that no longer passes next to the one whose address does.
InitLegacy ==
    /\ subscriptions = LegacySubscriptions \cup EarlierSubscriptions
    /\ subscription_tokens = LegacyTokens \cup EarlierTokens
    /\ email_server = <<>>
    /\ pc = [p \in Procs |-> "idle"]
    /\ request = [p \in Procs |-> NoRequest]
    /\ transaction = [p \in Procs |-> NoTransaction]
    /\ locals = [p \in Procs |-> NoLocals]
    /\ response = [p \in Procs |-> NoResponse]

---------------------------------------------------------------------------
(* Results                                                                 *)

\* The Result of a handler: Ok, or an error with the message that wraps it and
\* the error it was made from (the chain error_chain_fmt prints).  A message is
\* the sequence of its pieces, read one after the other: a piece is a run of
\* characters, or the code point of one character.
HttpResponse_Ok == [kind |-> "Ok", context |-> <<>>, cause |-> ""]
ValidationError(e) == [kind |-> "ValidationError", context |-> e, cause |-> ""]
UnexpectedError(c, cause) == [kind |-> "UnexpectedError", context |-> c, cause |-> cause]
UnknownToken == [kind |-> "UnknownToken", context |-> <<>>, cause |-> ""]

\* The errors the handlers wrap: a store call that could not be carried out, a
\* statement the schema rejects, a mail API call that failed.
SqlxIo == "sqlx::Error::Io"
SqlxDatabase == "sqlx::Error::Database"
ReqwestError == "reqwest::Error"

\* U+0060, the grave accent, as its code point: the one character of the
\* source's messages that a string of this language cannot hold.
GraveAccent == 96

\* The .context(...) messages that wrap a failure and name the call that failed.
\* subscriptions.rs:88
CtxBegin == <<"Failed to acquire a Postgres connection from the pool">>
\* subscriptions.rs:91
CtxInsertSubscriber == <<"Failed to insert new subscriber in the database">>
\* subscriptions.rs:95
CtxStoreToken == <<"Failed to store the confirmation token for a new subscriber">>
\* subscriptions.rs:99
CtxCommit == <<"Failed to commit SQL transaction to store a new subscriber">>
\* subscriptions.rs:103
CtxSendConfirmation == <<"Failed to send a confirmation email">>
\* subscriptions_confirm.rs:40
CtxGetSubscriberId == <<"Failed to get subscriber id from authorization token">>
\* subscriptions_confirm.rs:45: the word confirmed stands between two grave
\* accents.
CtxConfirmSubscriber ==
    <<"Failed to update the subscriber status to ", GraveAccent, "confirmed",
      GraveAccent>>
\* newsletters.rs:64: the message names the recipient (the Display of a
\* SubscriberEmail writes the address it holds).
CtxSendNewsletter(email) == <<"Failed to send newsletter issue to ">> \o email

\* A status_code without the arm for ValidationError: every error is a 500.
SubscribeStatusCode_without_bad_request(r) ==
    CASE r.kind = "Ok" -> 200
      [] r.kind = "ValidationError" -> 500
      [] r.kind = "UnexpectedError" -> 500

\* SubscribeError::status_code, subscriptions.rs:59-66, and the 200 of
\* HttpResponse::Ok() at subscriptions.rs:105.
SubscribeStatusCode(r) ==
    CASE r.kind = "Ok" -> 200
      [] r.kind = "ValidationError" -> 400
      [] r.kind = "UnexpectedError" -> 500

\* The status of a Result of confirm at the HTTP boundary (spec section 6):
\* unknown token 401, unexpected failure 500, success 200.
ConfirmStatusCode(r) ==
    CASE r.kind = "Ok" -> 200
      [] r.kind = "UnknownToken" -> 401
      [] r.kind = "UnexpectedError" -> 500

\* Requests are numbered in their order of arrival: invocation p is the p-th
\* request the server accepts.
Arrives(p) == pc[p] = "idle" /\ \A q \in 1..(p - 1) : pc[q] # "idle"

\* The handler returns: its Result is the response of the invocation.
Return(p, r) ==
    /\ response' = [response EXCEPT ![p] = r]
    /\ pc' = [pc EXCEPT ![p] = "done"]

Goto(p, label) ==
    /\ pc' = [pc EXCEPT ![p] = label]
    /\ UNCHANGED response

---------------------------------------------------------------------------
(* Subscription store: the SQL statements, as functions of the tables      *)

\* Uuid::new_v4(), subscriptions.rs:116: version-4 UUIDs are unique per call;
\* the number of the invocation stands for the one it draws.
Uuid_new_v4(p) == p

\* Utc::now(), subscriptions.rs:126: the instant at which invocation p reads
\* the clock, named after the invocation.
Utc_now(p) == p

\* The bind parameters $2 and $3 in the wrong order.
SubscriberRow_swapped(subscriber_id, new_subscriber, now) ==
    [id |-> subscriber_id,
     email |-> new_subscriber.name,
     name |-> new_subscriber.email,
     subscribed_at |-> now,
     status |-> "pending_confirmation"]

\* The row of INSERT INTO subscriptions, subscriptions.rs:118-127.
SubscriberRow(subscriber_id, new_subscriber, now) ==
    [id |-> subscriber_id,
     email |-> new_subscriber.email,
     name |-> new_subscriber.name,
     subscribed_at |-> now,
     status |-> "pending_confirmation"]

\* The row of INSERT INTO subscription_tokens, subscriptions.rs:186-191.
TokenRow(subscription_token, subscriber_id) ==
    [subscription_token |-> subscription_token, subscriber_id |-> subscriber_id]

\* Schema (migrations): subscriptions.email is UNIQUE.  A row that a committed
\* row conflicts with is rejected.
EmailTaken(row) == \E r \in subscriptions : r.email = row.email

\* An INSERT that conflicts with a row another open transaction has written
\* waits for that transaction to end (Postgres unique-index check).
EmailInDoubt(p, row) ==
    \E q \in Procs \ {p} : \E r \in transaction[q].subscriptions : r.email = row.email

\* Schema (migrations): subscription_tokens.subscription_token is the PRIMARY
\* KEY and subscriber_id REFERENCES subscriptions (id).
TokenTaken(row) ==
    \E t \in subscription_tokens : t.subscription_token = row.subscription_token

TokenInDoubt(p, row) ==
    \E q \in Procs \ {p} : \E t \in transaction[q].subscription_tokens :
        t.subscription_token = row.subscription_token

\* The rows a statement of transaction tx sees: the committed ones and its own.
Visible(tx) == subscriptions \cup tx.subscriptions

ForeignKeyHolds(tx, row) == \E r \in Visible(tx) : r.id = row.subscriber_id

\* The query without its WHERE clause: the first row of the table, if any.
SelectSubscriberId_any(tokens, subscription_token) ==
    IF tokens = {} THEN 0 ELSE (CHOOSE t \in tokens : TRUE).subscriber_id

\* SELECT subscriber_id FROM subscription_tokens WHERE subscription_token = $1
\* with fetch_optional, subscriptions_confirm.rs:58-68: None (0) or the id.
SelectSubscriberId(tokens, subscription_token) ==
    LET entry == {t \in tokens : t.subscription_token = subscription_token} IN
    IF entry = {} THEN 0 ELSE (CHOOSE t \in entry : TRUE).subscriber_id

\* An update that also resets the timestamp of the row.
UpdateStatusConfirmed_touching_timestamp(rows, subscriber_id) ==
    {IF r.id = subscriber_id
        THEN [r EXCEPT !.status = "confirmed", !.subscribed_at = 0]
        ELSE r : r \in rows}

\* An update that flips the status of the row.
UpdateStatusConfirmed_toggle(rows, subscriber_id) ==
    {IF r.id = subscriber_id
        THEN [r EXCEPT !.status = IF @ = "confirmed" THEN "pending_confirmation"
                                                      ELSE "confirmed"]
        ELSE r : r \in rows}

\* UPDATE subscriptions SET status = 'confirmed' WHERE id = $1,
\* subscriptions_confirm.rs:76-82.
UpdateStatusConfirmed(rows, subscriber_id) ==
    {IF r.id = subscriber_id THEN [r EXCEPT !.status = "confirmed"] ELSE r : r \in rows}

\* The query without its WHERE clause: every row of the table.
SelectConfirmed_any_status(rows) == rows

\* SELECT email FROM subscriptions WHERE status = 'confirmed',
\* newsletters.rs:86-91: the matching rows.
SelectConfirmed(rows) == {r \in rows : r.status = "confirmed"}

\* fetch_all returns the rows in an order the store chooses.
Orderings(S) ==
    {f \in [1..Cardinality(S) -> S] : \A i, j \in 1..Cardinality(S) : f[i] = f[j] => i = j}

\* The INSERT runs on the pool instead: its row is visible at once.
InsertSubscriberExecute_on_pool(p, row) ==
    /\ subscriptions' = subscriptions \cup {row}
    /\ UNCHANGED transaction

\* An INSERT that first empties the committed table.
InsertSubscriberExecute_truncating(p, row) ==
    /\ transaction' = [transaction EXCEPT ![p].subscriptions = @ \cup {row}]
    /\ subscriptions' = {}

\* .execute(transaction), subscriptions.rs:128: the INSERT runs inside the
\* transaction; its row is not visible to others before the commit.
InsertSubscriberExecute(p, row) ==
    /\ transaction' = [transaction EXCEPT ![p].subscriptions = @ \cup {row}]
    /\ UNCHANGED subscriptions

\* A commit that loses the token rows of the transaction.
CommitRows_without_tokens(p) ==
    /\ subscriptions' = subscriptions \cup transaction[p].subscriptions
    /\ UNCHANGED subscription_tokens

\* A commit that puts the rows of the transaction in place of the tables' rows.
CommitRows_replacing(p) ==
    /\ subscriptions' = transaction[p].subscriptions
    /\ subscription_tokens' = transaction[p].subscription_tokens

\* Transaction::commit: the rows of the transaction become visible, at once.
CommitRows(p) ==
    /\ subscriptions' = subscriptions \cup transaction[p].subscriptions
    /\ subscription_tokens' = subscription_tokens \cup transaction[p].subscription_tokens

\* A failed handler that keeps its connection: the transaction is not dropped.
Rollback_leaking(p) == UNCHANGED transaction

\* Drop of an uncommitted Transaction (the `?` returns of subscribe): rollback.
Rollback(p) == transaction' = [transaction EXCEPT ![p] = NoTransaction]

---------------------------------------------------------------------------
(* Mail dispatcher                                                         *)

\* A request body with the HTML and the text content in each other's field.
SendEmailRequest_swapping_bodies(p, recipient, subject, html_content, text_content, answer) ==
    [to |-> recipient, subject |-> subject, html_body |-> text_content,
     text_body |-> html_content, by |-> p, answer |-> answer]

\* The request body of EmailClient::send_email, email_client.rs:36-42, with the
\* invocation that sent it and the answer it got.
SendEmailRequest(p, recipient, subject, html_content, text_content, answer) ==
    [to |-> recipient, subject |-> subject, html_body |-> html_content,
     text_body |-> text_content, by |-> p, answer |-> answer]

\* A client that takes any answer of the server for a success: send() without
\* error_for_status().
SendEmailOk_without_error_for_status(answer) == answer # "timeout"

\* send().await?.error_for_status()?, email_client.rs:44-52: Ok on a success
\* status only.
SendEmailOk(answer) == answer = "200"

\* send_confirmation_email, subscriptions.rs:144-157.  A text is the sequence
\* of its pieces: the characters of the token and of the delimiters around
\* the link one by one, the fixed wording in chunks.
\* lines 144-148: format!("{}/subscriptions/confirm?subscription_token={}").
ConfirmationLink(base_url, subscription_token) ==
    <<base_url, "/subscriptions/confirm?subscription_token=">> \o subscription_token

\* lines 149-152.
PlainBody(link) ==
    <<"Welcome to our newsletter!\nVisit", " ">> \o link
        \o <<" ", "to confirm your subscription.">>

\* lines 153-157.
HtmlBody(link) ==
    <<"Welcome to our newsletter!<br />/Click <a href=", "\"">> \o link
        \o <<"\"", ">here</a> to confirm your subscription.">>

\* The characters that end a URL in running text.
IsUrlDelimiter(c) == IsWhitespace(c) \/ c \in {"\"", "<", ">"}

\* The end of the URL that is being read at position j of a text: the first
\* delimiter from j on, or the end of the text.
RECURSIVE UrlEnd(_, _)
UrlEnd(s, j) ==
    IF j > Len(s) \/ IsUrlDelimiter(s[j]) THEN j ELSE UrlEnd(s, j + 1)

\* linkify::LinkFinder::links filtered to LinkKind::Url, helpers.rs:105-108:
\* the positions of a text where a URL starts, at its scheme.
LinkStarts(s) == {i \in 1..Len(s) : s[i] = ApplicationBaseUrl}

\* TestApp.port, helpers.rs:184: the port the system gave the application.
TestApp_port == "8000"

\* Url::set_port(Some(port)), helpers.rs:113: the port is written after the
\* host of the URL, which carries none before.
set_port(url, port) == <<url[1], ":", port>> \o SubSeq(url, 2, Len(url))

\* The panic of assert_eq!(left, right), helpers.rs:110, with the message the
\* macro prints: the two values, each on a line of its own.
Panic(left, right) ==
    [panic |-> <<"assertion ", GraveAccent, "left == right", GraveAccent,
                 " failed\n  left: ", ToString(left),
                 "\n right: ", ToString(right)>>]

\* get_link of get_confirmation_links, tests/api/helpers.rs:104-115: the text
\* must hold exactly one URL (line 110); the result is that URL, from its
\* scheme to the character that ends it, with the port of the application.
get_link(s) ==
    LET links == LinkStarts(s) IN
    IF Cardinality(links) # 1
    THEN Panic(Cardinality(links), 1)
    ELSE LET start == CHOOSE i \in links : TRUE
         IN set_port(SubSeq(s, start, UrlEnd(s, start + 1) - 1), TestApp_port)

\* web::Query<Parameters>, subscriptions_confirm.rs:9-12 and 35: the value of
\* the query parameter subscription_token of a URL.
Query_subscription_token(url) ==
    LET key == CHOOSE i \in 1..Len(url) :
                    url[i] = "/subscriptions/confirm?subscription_token="
    IN SubSeq(url, key + 1, Len(url))

---------------------------------------------------------------------------
(* subscribe, subscriptions.rs:77-106                                      *)

\* POST /subscriptions arrives; line 83: the form is validated.
Subscribe(p, form) ==
    /\ Arrives(p)
    /\ request' = [request EXCEPT ![p] = [handler |-> "subscribe", form |-> form]]
    /\ LET new_subscriber == NewSubscriber_try_from(form) IN
       IF new_subscriber.ok
       THEN /\ locals' = [locals EXCEPT ![p].new_subscriber = new_subscriber.value]
            /\ Goto(p, "begin")
       ELSE /\ Return(p, ValidationError(new_subscriber.error))
            /\ UNCHANGED locals
    /\ UNCHANGED <<store, email_server, transaction>>

\* lines 85-88: pool.begin().
Begin(p) ==
    /\ pc[p] = "begin"
    /\ \E fault \in BOOLEAN :
         IF ~fault
         THEN /\ transaction' = [transaction EXCEPT ![p].open = TRUE]
              /\ Goto(p, "insert_subscriber")
         ELSE /\ Return(p, UnexpectedError(CtxBegin, SqlxIo))
              /\ UNCHANGED transaction
    /\ UNCHANGED <<store, email_server, request, locals>>

\* An INSERT that does not fail on an address that is already stored.
InsertSubscriber_without_conflict(p) ==
    /\ pc[p] = "insert_subscriber"
    /\ LET subscriber_id == Uuid_new_v4(p)
           row == SubscriberRow(subscriber_id, locals[p].new_subscriber, Utc_now(p))
       IN \E fault \in BOOLEAN :
            IF ~fault
            THEN /\ ~EmailInDoubt(p, row)
                 /\ InsertSubscriberExecute(p, row)
                 /\ locals' = [locals EXCEPT ![p].subscriber_id = subscriber_id]
                 /\ Goto(p, "store_token")
            ELSE /\ Return(p, UnexpectedError(CtxInsertSubscriber, SqlxIo))
                 /\ Rollback(p)
                 /\ UNCHANGED <<subscriptions, locals>>
    /\ UNCHANGED <<subscription_tokens, email_server, request>>

\* A token insert that runs on the pool: its row is visible at once.
StoreToken_on_pool(p) ==
    /\ pc[p] = "store_token"
    /\ \E rng \in RngStreams, fault \in BOOLEAN :
         LET subscription_token == generate_subscriptions_token(rng)
             row == TokenRow(subscription_token, locals[p].subscriber_id)
         IN /\ locals' = [locals EXCEPT ![p].subscription_token = subscription_token]
            /\ IF ~fault /\ ~TokenTaken(row)
               THEN /\ ~TokenInDoubt(p, row)
                    /\ subscription_tokens' = subscription_tokens \cup {row}
                    /\ Goto(p, "commit")
                    /\ UNCHANGED transaction
               ELSE /\ Return(p, UnexpectedError(CtxStoreToken,
                                                IF fault THEN SqlxIo ELSE SqlxDatabase))
                    /\ Rollback(p)
                    /\ UNCHANGED subscription_tokens
    /\ UNCHANGED <<subscriptions, email_server, request>>

\* lines 89-91 and insert_subscriber, lines 112-132.
InsertSubscriber(p) ==
    /\ pc[p] = "insert_subscriber"
    /\ LET subscriber_id == Uuid_new_v4(p)
           row == SubscriberRow(subscriber_id, locals[p].new_subscriber, Utc_now(p))
       IN \E fault \in BOOLEAN :
            IF ~fault /\ ~EmailTaken(row)
            THEN /\ ~EmailInDoubt(p, row)
                 /\ InsertSubscriberExecute(p, row)
                 /\ locals' = [locals EXCEPT ![p].subscriber_id = subscriber_id]
                 /\ Goto(p, "store_token")
            ELSE /\ Return(p, UnexpectedError(CtxInsertSubscriber,
                                             IF fault THEN SqlxIo ELSE SqlxDatabase))
                 /\ Rollback(p)
                 /\ UNCHANGED <<subscriptions, locals>>
    /\ UNCHANGED <<subscription_tokens, email_server, request>>

\* lines 92-95 and store_token, lines 181-196.
StoreToken(p) ==
    /\ pc[p] = "store_token"
    /\ \E rng \in RngStreams, fault \in BOOLEAN :
         LET subscription_token == generate_subscriptions_token(rng)
             row == TokenRow(subscription_token, locals[p].subscriber_id)
         IN /\ locals' = [locals EXCEPT ![p].subscription_token = subscription_token]
            /\ IF ~fault /\ ~TokenTaken(row) /\ ForeignKeyHolds(transaction[p], row)
               THEN /\ ~TokenInDoubt(p, row)
                    /\ transaction' = [transaction EXCEPT ![p].subscription_tokens = @ \cup {row}]
                    /\ Goto(p, "commit")
               ELSE /\ Return(p, UnexpectedError(CtxStoreToken,
                                                IF fault THEN SqlxIo ELSE SqlxDatabase))
                    /\ Rollback(p)
    /\ UNCHANGED <<store, email_server, request>>

\* The handler goes on to the dispatch with its transaction still open.
Commit_deferred(p) ==
    /\ pc[p] = "commit"
    /\ Goto(p, "send_confirmation_email")
    /\ UNCHANGED <<store, email_server, request, transaction, locals>>

\* lines 96-99: transaction.commit().
Commit(p) ==
    /\ pc[p] = "commit"
    /\ \E fault \in BOOLEAN :
         IF ~fault
         THEN /\ CommitRows(p)
              /\ transaction' = [transaction EXCEPT ![p] = NoTransaction]
              /\ Goto(p, "send_confirmation_email")
         ELSE /\ Return(p, UnexpectedError(CtxCommit, SqlxIo))
              /\ Rollback(p)
              /\ UNCHANGED store
    /\ UNCHANGED <<email_server, request, locals>>

\* A handler that takes the subscriber back when the dispatch fails.
SendConfirmationEmail_compensating(p) ==
    /\ pc[p] = "send_confirmation_email"
    /\ \E answer \in MailAnswers :
         LET link == ConfirmationLink(ApplicationBaseUrl, locals[p].subscription_token) IN
         /\ email_server' = Append(email_server,
                SendEmailRequest(p, locals[p].new_subscriber.email, "Welcome!",
                                 HtmlBody(link), PlainBody(link), answer))
         /\ IF SendEmailOk(answer)
            THEN /\ Return(p, HttpResponse_Ok)
                 /\ UNCHANGED store
            ELSE /\ Return(p, UnexpectedError(CtxSendConfirmation, ReqwestError))
                 /\ subscriptions' = {r \in subscriptions : r.id # locals[p].subscriber_id}
                 /\ subscription_tokens' =
                        {t \in subscription_tokens : t.subscriber_id # locals[p].subscriber_id}
    /\ UNCHANGED <<request, transaction, locals>>

\* A dispatch whose link carries a token generated anew instead of the stored one.
SendConfirmationEmail_with_new_token(p) ==
    /\ pc[p] = "send_confirmation_email"
    /\ \E answer \in MailAnswers, rng \in RngStreams :
         LET link == ConfirmationLink(ApplicationBaseUrl, generate_subscriptions_token(rng)) IN
         /\ email_server' = Append(email_server,
                SendEmailRequest(p, locals[p].new_subscriber.email, "Welcome!",
                                 HtmlBody(link), PlainBody(link), answer))
         /\ IF SendEmailOk(answer)
            THEN Return(p, HttpResponse_Ok)
            ELSE Return(p, UnexpectedError(CtxSendConfirmation, ReqwestError))
    /\ UNCHANGED <<store, request, transaction, locals>>

\* lines 101-105 and send_confirmation_email, lines 138-167.
SendConfirmationEmail(p) ==
    /\ pc[p] = "send_confirmation_email"
    /\ \E answer \in MailAnswers :
         LET link == ConfirmationLink(ApplicationBaseUrl, locals[p].subscription_token) IN
         /\ email_server' = Append(email_server,
                SendEmailRequest(p, locals[p].new_subscriber.email, "Welcome!",
                                 HtmlBody(link), PlainBody(link), answer))
         /\ IF SendEmailOk(answer)
            THEN Return(p, HttpResponse_Ok)
            ELSE Return(p, UnexpectedError(CtxSendConfirmation, ReqwestError))
    /\ UNCHANGED <<store, request, transaction, locals>>

---------------------------------------------------------------------------
(* confirm, subscriptions_confirm.rs:34-48                                 *)

\* GET /subscriptions/confirm arrives with its query parameter; the handler
\* starts and awaits its lookup, line 38.
Confirm(p, subscription_token) ==
    /\ Arrives(p)
    /\ request' = [request EXCEPT ![p] =
                      [handler |-> "confirm", subscription_token |-> subscription_token]]
    /\ Goto(p, "get_subscriber_id_from_token")
    /\ UNCHANGED <<store, email_server, transaction, locals>>

\* A handler that answers a failed lookup like an unmatched token.
GetSubscriberIdFromToken_failure_as_unknown(p) ==
    /\ pc[p] = "get_subscriber_id_from_token"
    /\ \E fault \in BOOLEAN :
         LET subscriber_id == SelectSubscriberId(subscription_tokens,
                                                 request[p].subscription_token) IN
         IF fault \/ subscriber_id = 0
         THEN /\ Return(p, UnknownToken)
              /\ UNCHANGED locals
         ELSE /\ locals' = [locals EXCEPT ![p].subscriber_id = subscriber_id]
              /\ Goto(p, "confirm_subscriber")
    /\ UNCHANGED <<store, email_server, request, transaction>>

\* A handler that answers a token it does not find with success.
GetSubscriberIdFromToken_accepting_unknown(p) ==
    /\ pc[p] = "get_subscriber_id_from_token"
    /\ \E fault \in BOOLEAN :
         LET subscriber_id == SelectSubscriberId(subscription_tokens,
                                                 request[p].subscription_token) IN
         IF fault
         THEN /\ Return(p, UnexpectedError(CtxGetSubscriberId, SqlxIo))
              /\ UNCHANGED locals
         ELSE IF subscriber_id = 0
         THEN /\ Return(p, HttpResponse_Ok)
              /\ UNCHANGED locals
         ELSE /\ locals' = [locals EXCEPT ![p].subscriber_id = subscriber_id]
              /\ Goto(p, "confirm_subscriber")
    /\ UNCHANGED <<store, email_server, request, transaction>>

\* lines 38-41 and get_subscriber_id_from_token, lines 54-69: the lookup
\* returns, over the rows committed at that moment.
GetSubscriberIdFromToken(p) ==
    /\ pc[p] = "get_subscriber_id_from_token"
    /\ \E fault \in BOOLEAN :
         LET subscriber_id == SelectSubscriberId(subscription_tokens,
                                                 request[p].subscription_token) IN
         IF fault
         THEN /\ Return(p, UnexpectedError(CtxGetSubscriberId, SqlxIo))
              /\ UNCHANGED locals
         ELSE IF subscriber_id = 0
         THEN /\ Return(p, UnknownToken)
              /\ UNCHANGED locals
         ELSE /\ locals' = [locals EXCEPT ![p].subscriber_id = subscriber_id]
              /\ Goto(p, "confirm_subscriber")
    /\ UNCHANGED <<store, email_server, request, transaction>>

\* A confirmation that consumes the token it was given.
ConfirmSubscriber_consuming(p) ==
    /\ pc[p] = "confirm_subscriber"
    /\ \E fault \in BOOLEAN :
         IF ~fault
         THEN /\ subscriptions' = UpdateStatusConfirmed(subscriptions, locals[p].subscriber_id)
              /\ subscription_tokens' =
                    {t \in subscription_tokens :
                        t.subscription_token # request[p].subscription_token}
              /\ Return(p, HttpResponse_Ok)
         ELSE /\ Return(p, UnexpectedError(CtxConfirmSubscriber, SqlxIo))
              /\ UNCHANGED store
    /\ UNCHANGED <<email_server, request, transaction, locals>>

\* A confirmation that deletes the token rows of the subscriber it confirms.
ConfirmSubscriber_deleting_tokens(p) ==
    /\ pc[p] = "confirm_subscriber"
    /\ \E fault \in BOOLEAN :
         IF ~fault
         THEN /\ subscriptions' = UpdateStatusConfirmed(subscriptions, locals[p].subscriber_id)
              /\ subscription_tokens' =
                    {t \in subscription_tokens : t.subscriber_id # locals[p].subscriber_id}
              /\ Return(p, HttpResponse_Ok)
         ELSE /\ Return(p, UnexpectedError(CtxConfirmSubscriber, SqlxIo))
              /\ UNCHANGED store
    /\ UNCHANGED <<email_server, request, transaction, locals>>

\* lines 43-47 and confirm_subscriber, lines 75-87.
ConfirmSubscriber(p) ==
    /\ pc[p] = "confirm_subscriber"
    /\ \E fault \in BOOLEAN :
         IF ~fault
         THEN /\ subscriptions' = UpdateStatusConfirmed(subscriptions, locals[p].subscriber_id)
              /\ Return(p, HttpResponse_Ok)
         ELSE /\ Return(p, UnexpectedError(CtxConfirmSubscriber, SqlxIo))
              /\ UNCHANGED subscriptions
    /\ UNCHANGED <<subscription_tokens, email_server, request, transaction, locals>>

---------------------------------------------------------------------------
(* publish_newsletter, newsletters.rs:47-75                                *)

\* A query that takes every stored address as it is.
ConfirmedSubscribers_unvalidated(rows) ==
    [i \in 1..Len(rows) |-> Ok(rows[i].email)]

\* get_confirmed_subscribers, newsletters.rs:96-102: every stored address is
\* parsed again; the Vec keeps a Result per row.
ConfirmedSubscribers(rows) ==
    [i \in 1..Len(rows) |-> SubscriberEmail_parse(rows[i].email)]

\* POST /newsletters arrives with its body; the handler starts and awaits
\* its recipient query, line 52.
PublishNewsletter(p) ==
    /\ Arrives(p)
    /\ request' = [request EXCEPT ![p] = [handler |-> "publish_newsletter", body |-> BodyData]]
    /\ Goto(p, "get_confirmed_subscribers")
    /\ UNCHANGED <<store, email_server, transaction, locals>>

\* line 52 and get_confirmed_subscribers, lines 81-105: the query returns,
\* over the rows committed at that moment.
GetConfirmedSubscribers(p) ==
    /\ pc[p] = "get_confirmed_subscribers"
    /\ \E fault \in BOOLEAN, rows \in Orderings(SelectConfirmed(subscriptions)) :
         IF fault
         THEN /\ Return(p, UnexpectedError(<<>>, SqlxIo))
              /\ UNCHANGED locals
         ELSE /\ locals' = [locals EXCEPT ![p].subscribers = ConfirmedSubscribers(rows)]
              /\ IF Len(rows) = 0
                 THEN Return(p, HttpResponse_Ok)
                 ELSE Goto(p, "send_newsletter")
    /\ UNCHANGED <<store, email_server, request, transaction>>

\* A loop that runs the recipient query again at every turn.
SendNewsletter_requerying(p) ==
    /\ pc[p] = "send_newsletter"
    /\ \E rows \in Orderings(SelectConfirmed(subscriptions)) :
         LET subscribers == ConfirmedSubscribers(rows)
             subscriber == subscribers[locals[p].next]
             last == locals[p].next = Len(subscribers)
             body == request[p].body
         IN IF subscriber.ok
            THEN \E answer \in MailAnswers :
                   /\ email_server' = Append(email_server,
                          SendEmailRequest(p, subscriber.value, body.title,
                                           body.content.html, body.content.text, answer))
                   /\ IF ~SendEmailOk(answer)
                      THEN /\ Return(p, UnexpectedError(CtxSendNewsletter(subscriber.value), ReqwestError))
                           /\ locals' = [locals EXCEPT ![p].subscribers = subscribers]
                      ELSE /\ locals' = [locals EXCEPT ![p].subscribers = subscribers,
                                                       ![p].next = @ + 1]
                           /\ IF last THEN Return(p, HttpResponse_Ok)
                                      ELSE Goto(p, "send_newsletter")
            ELSE /\ UNCHANGED email_server
                 /\ locals' = [locals EXCEPT ![p].subscribers = subscribers,
                                                 ![p].next = @ + 1]
                 /\ IF last THEN Return(p, HttpResponse_Ok) ELSE Goto(p, "send_newsletter")
    /\ UNCHANGED <<store, request, transaction>>

\* A loop that goes on after a failed dispatch and reports the failure of the
\* last recipient only.
SendNewsletter_continuing(p) ==
    /\ pc[p] = "send_newsletter"
    /\ LET subscriber == locals[p].subscribers[locals[p].next]
           last == locals[p].next = Len(locals[p].subscribers)
           body == request[p].body
       IN IF subscriber.ok
          THEN \E answer \in MailAnswers :
                 /\ email_server' = Append(email_server,
                        SendEmailRequest(p, subscriber.value, body.title,
                                         body.content.html, body.content.text, answer))
                 /\ IF ~SendEmailOk(answer) /\ last
                    THEN /\ Return(p, UnexpectedError(CtxSendNewsletter(subscriber.value), ReqwestError))
                         /\ UNCHANGED locals
                    ELSE /\ locals' = [locals EXCEPT ![p].next = @ + 1]
                         /\ IF last THEN Return(p, HttpResponse_Ok) ELSE Goto(p, "send_newsletter")
          ELSE /\ UNCHANGED email_server
               /\ locals' = [locals EXCEPT ![p].next = @ + 1]
               /\ IF last THEN Return(p, HttpResponse_Ok) ELSE Goto(p, "send_newsletter")
    /\ UNCHANGED <<store, request, transaction>>

\* lines 53-74: one turn of the loop, and line 74 after the last one.
SendNewsletter(p) ==
    /\ pc[p] = "send_newsletter"
    /\ LET subscriber == locals[p].subscribers[locals[p].next]
           last == locals[p].next = Len(locals[p].subscribers)
           body == request[p].body
       IN IF subscriber.ok
          THEN \E answer \in MailAnswers :
                 /\ email_server' = Append(email_server,
                        SendEmailRequest(p, subscriber.value, body.title,
                                         body.content.html, body.content.text, answer))
                 /\ IF ~SendEmailOk(answer)
                    THEN /\ Return(p, UnexpectedError(CtxSendNewsletter(subscriber.value), ReqwestError))
                         /\ UNCHANGED locals
                    ELSE /\ locals' = [locals EXCEPT ![p].next = @ + 1]
                         /\ IF last THEN Return(p, HttpResponse_Ok) ELSE Goto(p, "send_newsletter")
          ELSE /\ UNCHANGED email_server
               /\ locals' = [locals EXCEPT ![p].next = @ + 1]
               /\ IF last THEN Return(p, HttpResponse_Ok) ELSE Goto(p, "send_newsletter")
    /\ UNCHANGED <<store, request, transaction>>

---------------------------------------------------------------------------
(* The domain functions, called on their own (as the unit tests of         *)
(* subscriber_name.rs call them)                                           *)

\* The thread that makes the calls.
Caller == 1

\* SubscriberName::parse(s), subscriber_name.rs:8-20.
CallSubscriberNameParse(p, s) ==
    /\ Arrives(p)
    /\ request' = [request EXCEPT ![p] = [handler |-> "SubscriberName::parse", s |-> s]]
    /\ Return(p, SubscriberName_parse(s))
    /\ UNCHANGED <<store, email_server, transaction, locals>>

\* SubscriberEmail::parse(s).
CallSubscriberEmailParse(p, s) ==
    /\ Arrives(p)
    /\ request' = [request EXCEPT ![p] = [handler |-> "SubscriberEmail::parse", s |-> s]]
    /\ Return(p, SubscriberEmail_parse(s))
    /\ UNCHANGED <<store, email_server, transaction, locals>>

\* generate_subscriptions_token(), subscriptions.rs:169-175, over the samples
\* its generator yields.
CallGenerateSubscriptionsToken(p, rng) ==
    /\ Arrives(p)
    /\ request' = [request EXCEPT ![p] =
                      [handler |-> "generate_subscriptions_token", rng |-> rng]]
    /\ Return(p, generate_subscriptions_token(rng))
    /\ UNCHANGED <<store, email_server, transaction, locals>>

---------------------------------------------------------------------------
Next ==
    \E p \in Procs :
        \/ \E form \in Forms : Subscribe(p, form)
        \/ Begin(p)
        \/ InsertSubscriber(p)
        \/ StoreToken(p)
        \/ Commit(p)
        \/ SendConfirmationEmail(p)
        \/ \E subscription_token \in Parameters : Confirm(p, subscription_token)
        \/ GetSubscriberIdFromToken(p)
        \/ ConfirmSubscriber(p)
        \/ PublishNewsletter(p)
        \/ GetConfirmedSubscribers(p)
        \/ SendNewsletter(p)

\* The same handlers under the lighter load: every handler and every branch
\* of it still runs.
NextLight ==
    \E p \in Procs :
        \/ \E form \in LightForms : Subscribe(p, form)
        \/ Begin(p)
        \/ InsertSubscriber(p)
        \/ StoreToken(p)
        \/ Commit(p)
        \/ SendConfirmationEmail(p)
        \/ \E subscription_token \in LightParameters : Confirm(p, subscription_token)
        \/ GetSubscriberIdFromToken(p)
        \/ ConfirmSubscriber(p)
        \/ PublishNewsletter(p)
        \/ GetConfirmedSubscribers(p)
        \/ SendNewsletter(p)

Spec == Init /\ [][Next]_vars

\* The same handlers over the database of an earlier deployment.
SpecLegacy == InitLegacy /\ [][NextLight]_vars

\* The same handlers over a database with a confirmed subscriber.
SpecEarlier == InitEarlier /\ [][Next]_vars

\* The step a handler that has arrived takes next: the call it awaits returns.
Continue(p) ==
    \/ Begin(p)
    \/ InsertSubscriber(p)
    \/ StoreToken(p)
    \/ Commit(p)
    \/ SendConfirmationEmail(p)
    \/ GetSubscriberIdFromToken(p)
    \/ ConfirmSubscriber(p)
    \/ GetConfirmedSubscribers(p)
    \/ SendNewsletter(p)

\* #[actix_web::main] and HttpServer::run: the runtime polls the future of
\* every request it has accepted, so a handler whose awaited call has returned
\* goes on.  Requests themselves need not arrive.
Fairness == \A p \in Procs : WF_vars(Continue(p))

SpecFair == InitEarlier /\ [][NextLight]_vars /\ Fairness

\* One caller: the domain functions on their own, and one subscribe over the
\* wide range of forms.
NextDomain ==
    \/ Arrives(Caller) /\ \E s \in Names : CallSubscriberNameParse(Caller, s)
    \/ Arrives(Caller) /\ \E s \in Emails : CallSubscriberEmailParse(Caller, s)
    \/ Arrives(Caller) /\ \E rng \in WideRngStreams :
                             CallGenerateSubscriptionsToken(Caller, rng)
    \/ Arrives(Caller) /\ \E form \in WideForms : Subscribe(Caller, form)
    \/ Begin(Caller)
    \/ InsertSubscriber(Caller)
    \/ StoreToken(Caller)
    \/ Commit(Caller)
    \/ SendConfirmationEmail(Caller)

SpecDomain == Init /\ [][NextDomain]_vars

---------------------------------------------------------------------------
(* Properties                                                              *)

IsSubscribe(p) == request[p].handler = "subscribe"
IsConfirm(p) == request[p].handler = "confirm"

\* The lookup of a Confirm returns in this step.
ConfirmLooksUp(p) ==
    pc[p] = "get_subscriber_id_from_token" /\ pc'[p] # pc[p]

\* The recipient query of a Broadcast returns in this step, with success.
PublishQueries(p) ==
    /\ pc[p] = "get_confirmed_subscribers" /\ pc'[p] # pc[p]
    /\ response'[p] # UnexpectedError(<<>>, SqlxIo)
IsPublish(p) == request[p].handler = "publish_newsletter"
Done(p) == pc[p] = "done"

\* The committed rows an invocation of subscribe has written.
RowsOf(p) == {r \in subscriptions : r.id = Uuid_new_v4(p)}
TokensOf(p) == {t \in subscription_tokens : t.subscriber_id = Uuid_new_v4(p)}

\* The requests an invocation has sent to the mail API.
DispatchesBy(p) == {i \in 1..Len(email_server) : email_server[i].by = p}

\* The failures of the transactional part of subscribe.
TransactionFailures == {CtxInsertSubscriber, CtxStoreToken, CtxCommit}

\* C1: when the subscriber insert, the token insert or the commit of a
\* Subscribe fails, the call returns an unexpected error (500) and no
\* subscriber row and no token row of that attempt is visible afterwards.
C1_SubscribeIsAllOrNothing ==
    \A p \in Procs :
        (IsSubscribe(p) /\ Done(p) /\ response[p].context \in TransactionFailures)
            => /\ response[p].kind = "UnexpectedError"
               /\ SubscribeStatusCode(response[p]) = 500
               /\ RowsOf(p) = {}
               /\ TokensOf(p) = {}
               /\ transaction[p] = NoTransaction

\* A Subscribe whose token insert failed after its subscriber insert succeeded.
C1_Witness ==
    \E p \in Procs :
        /\ IsSubscribe(p) /\ Done(p)
        /\ response[p].context = CtxStoreToken
        /\ locals[p].subscriber_id = Uuid_new_v4(p)

\* C2: in every committed store state every subscriber row has exactly one
\* token row referencing it and every token row references a subscriber row.
C2_SubscribersAndTokensPairUp ==
    /\ \A r \in subscriptions :
         Cardinality({t \in subscription_tokens : t.subscriber_id = r.id}) = 1
    /\ \A t \in subscription_tokens :
         \E r \in subscriptions : r.id = t.subscriber_id

\* Two committed subscribers, one of them confirmed.
C2_Witness ==
    /\ Cardinality(subscriptions) = 2
    /\ \E r \in subscriptions : r.status = "confirmed"

\* The valid forms among the inputs, and the ones a validator rejects (blank
\* name, address without "@").
ValidForms == {f \in Forms : f.name = Str_le_guin /\ f.email \in {Str_ursula, Str_bob}}
InvalidForms == Forms \ ValidForms

\* The row a Subscribe is to store for its form.
ExpectedRow(p) ==
    [id |-> Uuid_new_v4(p),
     email |-> request[p].form.email,
     name |-> request[p].form.name,
     subscribed_at |-> Utc_now(p),
     status |-> "pending_confirmation"]

C3_State ==
    \A p \in Procs :
        (/\ IsSubscribe(p) /\ Done(p)
         /\ request[p].form \in ValidForms
         /\ response[p].context \notin {CtxBegin} \cup TransactionFailures
         /\ \A i \in DispatchesBy(p) : email_server[i].answer = "200")
            => /\ response[p] = HttpResponse_Ok
               /\ SubscribeStatusCode(response[p]) = 200
               /\ Cardinality(RowsOf(p)) = 1
               /\ \A r \in RowsOf(p) :
                    /\ r.name = request[p].form.name
                    /\ r.email = request[p].form.email
               /\ TokensOf(p) = {TokenRow(locals[p].subscription_token, Uuid_new_v4(p))}
               /\ Cardinality(DispatchesBy(p)) = 1

C3_Step ==
    \A p \in Procs :
        (pc[p] = "commit" /\ pc'[p] = "send_confirmation_email")
            => /\ subscriptions \subseteq subscriptions'
               /\ subscriptions' \ subscriptions = {ExpectedRow(p)}
               /\ subscription_tokens \subseteq subscription_tokens'
               /\ subscription_tokens' \ subscription_tokens =
                    {TokenRow(locals[p].subscription_token, Uuid_new_v4(p))}

\* C3: a Subscribe with a valid name and email, whose store calls all succeed
\* and whose dispatch is accepted, returns 200; its commit adds exactly one
\* subscriber row, pending_confirmation, with the given name and email, and
\* exactly one token row referencing it; exactly one dispatch is made.
C3_SubscribeSucceeds == [](C3_State) /\ [][C3_Step]_vars

\* A Subscribe that returned 200 and whose subscriber is still pending.
C3_Witness ==
    \E p \in Procs :
        /\ IsSubscribe(p) /\ Done(p) /\ response[p] = HttpResponse_Ok
        /\ \E r \in RowsOf(p) : r.status = "pending_confirmation"

C4_State ==
    \A p \in Procs :
        (IsSubscribe(p) /\ request[p].form \in InvalidForms)
            => /\ Done(p)
               /\ response[p].kind = "ValidationError"
               /\ RowsOf(p) = {} /\ TokensOf(p) = {}
               /\ DispatchesBy(p) = {}
               /\ transaction[p] = NoTransaction

C4_Step ==
    \A p \in Procs :
        (/\ Arrives(p) /\ pc'[p] # "idle"
         /\ request'[p].handler = "subscribe"
         /\ request'[p].form \in InvalidForms)
            => /\ pc'[p] = "done"
               /\ response'[p].kind = "ValidationError"
               /\ SubscribeStatusCode(response'[p]) = 400
               /\ UNCHANGED <<subscriptions, subscription_tokens, email_server, transaction>>

\* C4: a Subscribe whose name or email fails validation returns a
\* ValidationError (400) at once: no transaction is begun, nothing is written,
\* no email is dispatched and the store is unchanged.
C4_InvalidFormIsRejected == [](C4_State) /\ [][C4_Step]_vars

\* One Subscribe rejected for its name and one rejected for its address.
C4_Witness ==
    \E p, q \in Procs :
        /\ IsSubscribe(p) /\ Done(p) /\ request[p].form.name = Str_blank
        /\ IsSubscribe(q) /\ Done(q) /\ request[q].form.email = Str_not_an_email
        /\ response[p].kind = "ValidationError"
        /\ response[q].kind = "ValidationError"

\* A Subscribe that committed and then failed to send its confirmation email.
DispatchFailed(p) ==
    IsSubscribe(p) /\ Done(p) /\ response[p].context = CtxSendConfirmation

C5_State ==
    \A p \in Procs :
        DispatchFailed(p)
            => /\ response[p].kind = "UnexpectedError"
               /\ SubscribeStatusCode(response[p]) = 500
               /\ Cardinality(RowsOf(p)) = 1
               /\ TokenRow(locals[p].subscription_token, Uuid_new_v4(p)) \in subscription_tokens
               /\ \A q \in Procs :
                    (/\ IsConfirm(q) /\ Done(q) /\ response[q].kind = "Ok"
                     /\ request[q].subscription_token = locals[p].subscription_token)
                        => \A r \in RowsOf(p) : r.status = "confirmed"

C5_Step ==
    \A p, q \in Procs :
        (/\ DispatchFailed(p)
         /\ ConfirmLooksUp(q)
         /\ request'[q].subscription_token = locals[p].subscription_token)
            => \/ /\ pc'[q] = "confirm_subscriber"
                  /\ locals'[q].subscriber_id = Uuid_new_v4(p)
               \/ response'[q] = UnexpectedError(CtxGetSubscriberId, SqlxIo)

\* C5: when the confirmation email fails after the commit, Subscribe returns
\* an UnexpectedError (500) and the subscriber row and its token row stay; a
\* later Confirm with that token finds the subscriber and confirms it.
C5_DispatchFailureKeepsTheSubscriber == [](C5_State) /\ [][C5_Step]_vars

\* The subscriber of a Subscribe whose dispatch failed has been confirmed with
\* its token.
C5_Witness ==
    \E p, q \in Procs :
        /\ DispatchFailed(p)
        /\ IsConfirm(q) /\ Done(q) /\ response[q].kind = "Ok"
        /\ request[q].subscription_token = locals[p].subscription_token
        /\ \E r \in RowsOf(p) : r.status = "confirmed"

\* The order of the awaits of subscribe.
SubscribeOrder ==
    {<<"idle", "begin">>, <<"begin", "insert_subscriber">>,
     <<"insert_subscriber", "store_token">>, <<"store_token", "commit">>,
     <<"commit", "send_confirmation_email">>}
        \cup {<<l, "done">> : l \in {"idle", "begin", "insert_subscriber", "store_token",
                                     "commit", "send_confirmation_email"}}

C6_State ==
    \A p \in Procs :
        IsSubscribe(p)
            => /\ (pc[p] = "send_confirmation_email" \/ DispatchesBy(p) # {})
                    => /\ ~transaction[p].open
                       /\ RowsOf(p) # {} /\ TokensOf(p) # {}
               /\ transaction[p].open
                    => pc[p] \in {"insert_subscriber", "store_token", "commit"}

C6_Step ==
    \A p \in Procs :
        request'[p].handler = "subscribe"
            => /\ pc'[p] # pc[p] => <<pc[p], pc'[p]>> \in SubscribeOrder
               /\ DispatchesBy(p)' # DispatchesBy(p)
                    => /\ pc[p] = "send_confirmation_email"
                       /\ ~transaction[p].open
                       /\ RowsOf(p) # {} /\ TokensOf(p) # {}

\* C6: the steps of one Subscribe occur in the order validate, begin, insert
\* subscriber, insert token, commit, dispatch: the dispatch starts only after
\* the commit has succeeded and no Subscribe has a transaction open while its
\* dispatch is in flight.
C6_DispatchFollowsCommit == [](C6_State) /\ [][C6_Step]_vars

\* A Subscribe that has dispatched its email while another holds a transaction.
C6_Witness ==
    \E p, q \in Procs :
        /\ IsSubscribe(p) /\ DispatchesBy(p) # {}
        /\ IsSubscribe(q) /\ transaction[q].open

\* The token of a Confirm request is stored / the subscriber it names.
TokenStored(subscription_token) ==
    \E t \in subscription_tokens : t.subscription_token = subscription_token

Confirmed(subscriber_id) ==
    \E r \in subscriptions : r.id = subscriber_id /\ r.status = "confirmed"


C7_State ==
    \A p \in Procs :
        (IsConfirm(p) /\ Done(p) /\ response[p].kind = "Ok")
            => /\ Confirmed(locals[p].subscriber_id)
               /\ TokenStored(request[p].subscription_token)

C7_Step ==
    \A p \in Procs :
        /\ (ConfirmLooksUp(p) /\ TokenStored(request'[p].subscription_token))
              => \/ pc'[p] = "confirm_subscriber"
                 \/ response'[p] = UnexpectedError(CtxGetSubscriberId, SqlxIo)
        /\ (pc[p] = "confirm_subscriber" /\ pc'[p] = "done")
              => \/ /\ response'[p] = HttpResponse_Ok
                    /\ Confirmed(locals[p].subscriber_id)'
                    /\ Confirmed(locals[p].subscriber_id) => UNCHANGED store
                 \/ /\ response'[p] = UnexpectedError(CtxConfirmSubscriber, SqlxIo)
                    /\ UNCHANGED store

\* C7: Confirm is idempotent for a stored token: unless the store fails, every
\* call with it succeeds; the subscriber is confirmed after the first call and
\* after each later one, and a later call leaves the store as the first left it.
C7_ConfirmIsIdempotent == [](C7_State) /\ [][C7_Step]_vars

\* Two Confirm calls with the same token have both succeeded.
C7_Witness ==
    \E p, q \in Procs :
        /\ p # q
        /\ IsConfirm(p) /\ Done(p) /\ response[p].kind = "Ok"
        /\ IsConfirm(q) /\ Done(q) /\ response[q].kind = "Ok"
        /\ request[p].subscription_token = request[q].subscription_token

C8_State ==
    \A p \in Procs :
        (IsConfirm(p) /\ response[p] = UnknownToken)
            => Done(p) /\ locals[p].subscriber_id = 0

C8_Step ==
    \A p \in Procs :
        (ConfirmLooksUp(p) /\ ~TokenStored(request'[p].subscription_token))
            => /\ pc'[p] = "done"
               /\ \/ response'[p] = UnknownToken
                  \/ response'[p] = UnexpectedError(CtxGetSubscriberId, SqlxIo)
               /\ UNCHANGED store

\* C8: a Confirm whose token matches no token row returns UnknownToken (unless
\* the lookup itself fails in the store), updates no status and leaves every
\* subscriber row and every token row unchanged.
C8_UnknownTokenIsRejected == [](C8_State) /\ [][C8_Step]_vars

\* A Confirm with an unknown token was rejected while a subscriber is stored.
C8_Witness ==
    \E p \in Procs :
        /\ IsConfirm(p) /\ Done(p) /\ response[p] = UnknownToken
        /\ request[p].subscription_token = Str_not_a_real_token
        /\ subscriptions # {}

C9_Step ==
    /\ \A r \in subscriptions :
         \/ r \in subscriptions'
         \/ /\ r.status = "pending_confirmation"
            /\ [r EXCEPT !.status = "confirmed"] \in subscriptions'
    /\ \A r \in subscriptions' :
         \/ \E o \in subscriptions : o.id = r.id
         \/ r.status = "pending_confirmation"
    /\ \A r \in subscriptions' : r.status \in {"pending_confirmation", "confirmed"}

\* C9: subscriber status is monotonic: a row is created pending_confirmation,
\* the only change of a status is pending_confirmation to confirmed, and a
\* confirmed subscriber stays confirmed (and stored) in every later state.
C9_StatusIsMonotonic == [][C9_Step]_vars

\* A subscriber has been confirmed while another one is pending.
C9_Witness ==
    /\ \E r \in subscriptions : r.status = "pending_confirmation"
    /\ \E p \in Procs :
         /\ IsConfirm(p) /\ Done(p) /\ response[p].kind = "Ok"
         /\ Confirmed(locals[p].subscriber_id)

\* The addresses of the model that are well-formed.
ValidEmails == {Str_ursula, Str_bob}

\* The dispatches of a Broadcast to one address.
DispatchesTo(p, email) == {i \in DispatchesBy(p) : email_server[i].to = email}

\* A Broadcast whose recipient query succeeded.
Queried(p) == IsPublish(p) /\ ~(Done(p) /\ response[p] = UnexpectedError(<<>>, SqlxIo))

C10_State ==
    \A p \in Procs :
        Queried(p)
            => /\ \A i \in DispatchesBy(p) : email_server[i].to \in ValidEmails
               /\ (Done(p) /\ response[p].kind = "UnexpectedError")
                    => \E i \in DispatchesBy(p) :
                          /\ email_server[i].answer # "200"
                          /\ response[p] =
                                UnexpectedError(CtxSendNewsletter(email_server[i].to),
                                                ReqwestError)
               /\ (Done(p) /\ \A i \in DispatchesBy(p) : email_server[i].answer = "200")
                    => /\ response[p] = HttpResponse_Ok
                       /\ \A k \in 1..Len(locals[p].subscribers) :
                            locals[p].subscribers[k].ok
                                => Cardinality(DispatchesTo(p, locals[p].subscribers[k].value)) = 1

C10_Step ==
    \A p \in Procs :
        PublishQueries(p)
            => /\ Len(locals'[p].subscribers) = Cardinality(SelectConfirmed(subscriptions))
               /\ \A r \in subscriptions :
                    (r.status = "confirmed" /\ r.email \in ValidEmails)
                        => \E k \in 1..Len(locals'[p].subscribers) :
                              /\ locals'[p].subscribers[k].ok
                              /\ locals'[p].subscribers[k].value = r.email
               /\ \A k \in 1..Len(locals'[p].subscribers) :
                    locals'[p].subscribers[k].ok
                        => locals'[p].subscribers[k].value \in ValidEmails

\* C10: Broadcast skips a confirmed subscriber whose stored email fails the
\* validation: no dispatch is made for it, it neither stops the batch nor makes
\* Broadcast fail, and with no dispatch failure every confirmed subscriber with
\* a valid stored email gets exactly one dispatch.
C10_InvalidStoredEmailIsSkipped == [](C10_State) /\ [][C10_Step]_vars

\* A Broadcast has succeeded whose first recipient had an invalid stored email
\* and whose second one got the newsletter.
C10_Witness ==
    \E p \in Procs :
        /\ IsPublish(p) /\ Done(p) /\ response[p] = HttpResponse_Ok
        /\ Len(locals[p].subscribers) = 2
        /\ ~locals[p].subscribers[1].ok
        /\ locals[p].subscribers[2].ok
        /\ Cardinality(DispatchesTo(p, locals[p].subscribers[2].value)) = 1

---------------------------------------------------------------------------
(* Broadcast stops at the first failure                                    *)

\* The requests an invocation has sent to the mail API, in the order sent.
DispatchSeq(p) == SelectSeq(email_server, LAMBDA m : m.by = p)

\* The recipients among the first k entries of the queried sequence.
RecipientsUpTo(p, k) == SelectSeq(SubSeq(locals[p].subscribers, 1, k), LAMBDA s : s.ok)

\* A Broadcast one of whose dispatches the mail API did not answer with
\* success.
BroadcastFailed(p) ==
    /\ IsPublish(p)
    /\ \E i \in DispatchesBy(p) : ~SendEmailOk(email_server[i].answer)

\* C11: when a dispatch of a Broadcast fails, Broadcast returns at once an
\* UnexpectedError wrapping the cause of that failure, with a message that
\* names the recipient of the failed dispatch; the failed dispatch is its only
\* failed one and its last one, no recipient after the failing one in the
\* queried sequence was sent anything, and every recipient before it got
\* exactly one dispatch, which succeeded.
C11_FirstDispatchFailureStopsTheBatch ==
    \A p \in Procs :
        BroadcastFailed(p) =>
            LET subscribers == locals[p].subscribers
                failing == locals[p].next
                before == RecipientsUpTo(p, failing - 1)
                sent == DispatchSeq(p)
            IN /\ Done(p)
               /\ subscribers[failing].ok
               /\ response[p] =
                     UnexpectedError(CtxSendNewsletter(subscribers[failing].value),
                                     ReqwestError)
               /\ Len(sent) = Len(before) + 1
               /\ \A i \in 1..Len(before) :
                     /\ sent[i].to = before[i].value
                     /\ SendEmailOk(sent[i].answer)
               /\ sent[Len(sent)].to = subscribers[failing].value
               /\ ~SendEmailOk(sent[Len(sent)].answer)
               /\ \A j \in (failing + 1)..Len(subscribers) :
                     subscribers[j].ok =>
                        \A i \in 1..Len(sent) : sent[i].to # subscribers[j].value

\* A Broadcast over two recipients whose first dispatch failed.
C11_Witness ==
    \E p \in Procs :
        /\ BroadcastFailed(p)
        /\ Len(locals[p].subscribers) = 2
        /\ locals[p].next = 1
        /\ locals[p].subscribers[2].ok

---------------------------------------------------------------------------
(* Subscriptions with the same address                                     *)

\* Two invocations of subscribe that carry the same valid address.
SameEmail(p, q) ==
    /\ p # q
    /\ IsSubscribe(p) /\ IsSubscribe(q)
    /\ request[p].form \in ValidForms
    /\ request[p].form.email = request[q].form.email

\* The invocation whose rows the store holds.
Committed(p) == RowsOf(p) # {}

\* The invocation whose INSERT the unique constraint rejected.
DuplicateRejected(p) ==
    /\ IsSubscribe(p) /\ Done(p)
    /\ response[p] = UnexpectedError(CtxInsertSubscriber, SqlxDatabase)

\* C12: of the Subscribe invocations that carry the same address at most one
\* commits and the store never holds two rows with one address; once one has
\* committed, every other one is still before its insert or has returned an
\* unexpected error (500), the one the constraint rejects with the insert's
\* error; a rejected invocation leaves no subscriber row and no token row and
\* the winner's row (up to its status) and token are the ones the winner wrote.
C12_DuplicateEmailHasOneWinner ==
    /\ \A r1, r2 \in subscriptions : r1.email = r2.email => r1 = r2
    /\ \A p, q \in Procs :
         (SameEmail(p, q) /\ Committed(q))
            => /\ ~Committed(p)
               /\ pc[p] \in {"begin", "insert_subscriber", "done"}
               /\ Done(p) => /\ response[p].kind = "UnexpectedError"
                             /\ SubscribeStatusCode(response[p]) = 500
                             /\ TokensOf(p) = {}
                             /\ transaction[p] = NoTransaction
               /\ RowsOf(q) \subseteq
                     {ExpectedRow(q), [ExpectedRow(q) EXCEPT !.status = "confirmed"]}
               /\ TokensOf(q) = {TokenRow(locals[q].subscription_token, Uuid_new_v4(q))}
    /\ \A p \in Procs :
         DuplicateRejected(p)
            => /\ SubscribeStatusCode(response[p]) = 500
               /\ RowsOf(p) = {} /\ TokensOf(p) = {}
               /\ transaction[p] = NoTransaction
               /\ \E r \in subscriptions :
                     r.email = request[p].form.email /\ r.id # Uuid_new_v4(p)

\* Two subscriptions with one address: one committed, the constraint rejected
\* the other.
C12_Witness ==
    \E p, q \in Procs :
        SameEmail(p, q) /\ Committed(q) /\ DuplicateRejected(p)

---------------------------------------------------------------------------
(* Subscriptions with distinct addresses                                   *)

\* An invocation of subscribe with a valid form that shares its address with
\* no other invocation.
DistinctEmail(p) ==
    /\ IsSubscribe(p)
    /\ request[p].form \in ValidForms
    /\ \A q \in Procs \ {p} :
         IsSubscribe(q) => request[q].form.email # request[p].form.email

\* The token the invocation drew (if it has drawn one) was drawn by no other.
DistinctToken(p) ==
    \A q \in Procs \ {p} :
        IsSubscribe(q) =>
            \/ locals[p].subscription_token = <<>>
            \/ locals[q].subscription_token # locals[p].subscription_token

Independent(p) == DistinctEmail(p) /\ DistinctToken(p)

\* The failures of the store or of the dispatcher themselves.
OwnFaults == {SqlxIo, ReqwestError}

\* The invocation has committed its transaction.
PastCommit(p) ==
    \/ pc[p] = "send_confirmation_email"
    \/ Done(p) /\ response[p].kind = "Ok"
    \/ Done(p) /\ response[p].context = CtxSendConfirmation

\* The invocation is not held up or rejected by another one: its insert does
\* not wait, it has failed only by a fault of the store or of the dispatcher
\* itself, and once it has committed the store holds its own subscriber row
\* and its own token row.
SucceedsIndependently(p) ==
    /\ pc[p] = "insert_subscriber"
         => ~EmailInDoubt(p, SubscriberRow(Uuid_new_v4(p),
                             locals[p].new_subscriber, Utc_now(p)))
    /\ (Done(p) /\ response[p].kind # "Ok")
         => /\ response[p].kind = "UnexpectedError"
            /\ response[p].cause \in OwnFaults
    /\ PastCommit(p)
         => /\ RowsOf(p) \subseteq
                 {ExpectedRow(p), [ExpectedRow(p) EXCEPT !.status = "confirmed"]}
            /\ Cardinality(RowsOf(p)) = 1
            /\ TokensOf(p) =
                 {TokenRow(locals[p].subscription_token, Uuid_new_v4(p))}

\* C13, as claimed: a Subscribe whose valid address no other invocation
\* carries is never held up or rejected by another one, whatever the others
\* do.  It fails when two invocations draw the same token: the second insert
\* of the token is rejected by the primary key of the token table.
C13_AsClaimed ==
    \A p \in Procs : DistinctEmail(p) => SucceedsIndependently(p)

\* C13, as amended: a Subscribe whose valid address no other invocation
\* carries and whose token no other invocation drew is never held up or
\* rejected by another one: its insert never waits, it fails only by a fault
\* of the store or of the dispatcher itself, and once it has committed the
\* store holds its own subscriber row and its own token row, whatever the
\* others do.
C13_DistinctEmailsSucceedIndependently ==
    \A p \in Procs : Independent(p) => SucceedsIndependently(p)

\* Two subscriptions with distinct addresses that overlapped (the one that
\* arrived first was the last to dispatch) and both succeeded.
C13_Witness ==
    \E p, q \in Procs :
        /\ p < q
        /\ Independent(p) /\ Independent(q)
        /\ Done(p) /\ response[p].kind = "Ok"
        /\ Done(q) /\ response[q].kind = "Ok"
        /\ Committed(p) /\ Committed(q)
        /\ \E i \in DispatchesBy(q), j \in DispatchesBy(p) : i < j

---------------------------------------------------------------------------
(* Status of a Subscribe                                                   *)

\* The calls of subscribe that can fail after validation.
SubscribeFailures ==
    {CtxBegin, CtxInsertSubscriber, CtxStoreToken, CtxCommit, CtxSendConfirmation}

\* C14: a Subscribe that has returned answers 400 exactly when its form failed
\* validation, 500 exactly when acquiring the connection, an insert, the
\* commit or the dispatch failed, and 200 exactly when it committed and the
\* dispatch succeeded; it answers nothing else.
C14_SubscribeStatusFollowsErrorClass ==
    \A p \in Procs :
        (IsSubscribe(p) /\ Done(p))
            => LET status == SubscribeStatusCode(response[p]) IN
               /\ status \in {200, 400, 500}
               /\ status = 400 <=> request[p].form \in InvalidForms
               /\ status = 400 <=> response[p].kind = "ValidationError"
               /\ status = 500 <=> /\ response[p].kind = "UnexpectedError"
                                   /\ response[p].context \in SubscribeFailures
               /\ status = 200 <=> /\ response[p] = HttpResponse_Ok
                                   /\ Committed(p)
                                   /\ \E i \in DispatchesBy(p) :
                                        SendEmailOk(email_server[i].answer)

\* One Subscribe of each outcome has returned.
C14_Witness ==
    \E p, q, r \in Procs :
        /\ IsSubscribe(p) /\ Done(p) /\ SubscribeStatusCode(response[p]) = 200
        /\ IsSubscribe(q) /\ Done(q) /\ SubscribeStatusCode(response[q]) = 400
        /\ IsSubscribe(r) /\ Done(r) /\ SubscribeStatusCode(response[r]) = 500

---------------------------------------------------------------------------
(* Status of a Confirm                                                     *)

C15_State ==
    \A p \in Procs :
        (IsConfirm(p) /\ Done(p))
            => LET status == ConfirmStatusCode(response[p]) IN
               /\ status \in {200, 401, 500}
               /\ status = 401 <=> response[p] = UnknownToken
               /\ status = 401 => locals[p].subscriber_id = 0
               /\ status = 500 <=>
                    \/ response[p] = UnexpectedError(CtxGetSubscriberId, SqlxIo)
                    \/ response[p] = UnexpectedError(CtxConfirmSubscriber, SqlxIo)
               /\ status = 200 <=> response[p] = HttpResponse_Ok
               /\ status = 200 => Confirmed(locals[p].subscriber_id)

C15_Step ==
    \A p \in Procs :
        /\ (ConfirmLooksUp(p) /\ ~TokenStored(request'[p].subscription_token))
             => /\ pc'[p] = "done"
                /\ \/ ConfirmStatusCode(response'[p]) = 401
                   \/ response'[p] = UnexpectedError(CtxGetSubscriberId, SqlxIo)
        /\ (ConfirmLooksUp(p) /\ TokenStored(request'[p].subscription_token))
             => \/ pc'[p] = "confirm_subscriber"
                \/ /\ pc'[p] = "done"
                   /\ response'[p] = UnexpectedError(CtxGetSubscriberId, SqlxIo)
        /\ (pc[p] = "confirm_subscriber" /\ pc'[p] # pc[p])
             => /\ pc'[p] = "done"
                /\ ConfirmStatusCode(response'[p]) \in {200, 500}

\* C15: a Confirm whose token is unknown answers 401, unless the lookup itself
\* fails; a failure of the lookup or of the status update in the store answers
\* 500, a Confirm of a stored token never answers 401, and only a Confirm that
\* has confirmed its subscriber answers 200.
C15_UnknownTokenIsUnauthorized == [](C15_State) /\ [][C15_Step]_vars

\* A Confirm with an unknown token has answered 401 and a Confirm of a stored
\* token has answered 200.
C15_Witness ==
    \E p, q \in Procs :
        /\ IsConfirm(p) /\ Done(p) /\ ConfirmStatusCode(response[p]) = 401
        /\ IsConfirm(q) /\ Done(q) /\ ConfirmStatusCode(response[q]) = 200

---------------------------------------------------------------------------
(* The confirmation link                                                   *)

\* The token in the link of the plain-text body of a confirmation email.
LinkToken(m) == Query_subscription_token(get_link(m.text_body))

\* C16: the link in the plain-text body of the email a Subscribe dispatched
\* equals the link in its HTML body, the token in that link is the token the
\* token table holds for the subscriber that call created, and a Confirm that
\* redeemed that token with success has confirmed that subscriber.
C16_LinkCarriesTheStoredToken ==
    \A i \in 1..Len(email_server) :
        LET m == email_server[i]
            p == m.by
        IN IsSubscribe(p)
            => LET plain_text == get_link(m.text_body)
                   token == Query_subscription_token(plain_text)
               IN /\ plain_text = get_link(m.html_body)
                  /\ token = locals[p].subscription_token
                  /\ Len(token) = TokenLen
                  /\ TokensOf(p) = {TokenRow(token, Uuid_new_v4(p))}
                  /\ \A q \in Procs :
                       (/\ IsConfirm(q) /\ Done(q) /\ response[q].kind = "Ok"
                        /\ request[q].subscription_token = token)
                           => /\ locals[q].subscriber_id = Uuid_new_v4(p)
                              /\ Confirmed(Uuid_new_v4(p))

\* The token of a dispatched confirmation link has been redeemed.
C16_Witness ==
    \E i \in 1..Len(email_server), q \in Procs :
        /\ IsSubscribe(email_server[i].by)
        /\ IsConfirm(q) /\ Done(q) /\ response[q].kind = "Ok"
        /\ request[q].subscription_token = LinkToken(email_server[i])
        /\ Confirmed(Uuid_new_v4(email_server[i].by))

---------------------------------------------------------------------------
(* Identity validators                                                     *)

IsNameCall(p) == request[p].handler = "SubscriberName::parse"
IsEmailCall(p) == request[p].handler = "SubscriberEmail::parse"
IsTokenCall(p) == request[p].handler = "generate_subscriptions_token"

\* str::trim: the string from its first to its last character that is not
\* white space.
Trim(s) ==
    LET kept == {i \in 1..Len(s) : ~IsWhitespace(s[i])} IN
    IF kept = {} THEN <<>>
    ELSE SubSeq(s, CHOOSE i \in kept : \A j \in kept : i <= j,
                   CHOOSE i \in kept : \A j \in kept : i >= j)

\* The constraints on a name: not empty after trimming, at most 256 grapheme
\* clusters, none of the forbidden characters.
WithinNameConstraints(s) ==
    /\ Trim(s) # <<>>
    /\ GraphemeCount(s) <= MaxNameGraphemes
    /\ \A c \in ForbiddenCharacters : \A i \in 1..Len(s) : s[i] # c

\* C17: for every name that is not empty after trimming, has at most 256
\* grapheme clusters and holds no forbidden character, ParseName succeeds and
\* the SubscriberName holds the input string itself, untrimmed and unchanged.
C17_ValidNameRoundTrips ==
    \A p \in Procs :
        (IsNameCall(p) /\ Done(p) /\ WithinNameConstraints(request[p].s))
            => /\ response[p].ok
               /\ response[p].value = request[p].s

\* The name of 256 clusters of two characters each has been accepted.
C17_Witness ==
    \E p \in Procs :
        /\ IsNameCall(p) /\ Done(p)
        /\ request[p].s = Repeat(<<"a", "U+0310">>, 256)
        /\ response[p].ok

\* C18: ParseName fails for every name that is empty, white space only, longer
\* than 256 grapheme clusters or holds a forbidden character, so that every
\* SubscriberName, also the one a Subscribe goes on with, is within the
\* constraints.
C18_InvalidNameIsRejected ==
    \A p \in Procs :
        /\ (IsNameCall(p) /\ Done(p))
             => /\ ~WithinNameConstraints(request[p].s) => ~response[p].ok
                /\ response[p].ok => WithinNameConstraints(response[p].value)
        /\ (IsSubscribe(p) /\ response[p].kind # "ValidationError")
             => WithinNameConstraints(locals[p].new_subscriber.name)

\* A name of white space only, which is not the empty name, has been rejected.
C18_Witness ==
    \E p \in Procs :
        /\ IsNameCall(p) /\ Done(p)
        /\ request[p].s = <<"\n", " ">>
        /\ ~response[p].ok

\* What the claim names as no address: the empty string, a string without
\* "@", a string with nothing before or after its "@", and with them a string
\* that holds white space or whose domain starts or ends with a dot.
NotAnAddress(s) ==
    \/ s = <<>>
    \/ \A i \in 1..Len(s) : s[i] # "@"
    \/ s[1] = "@"
    \/ s[Len(s)] \in {"@", "."}
    \/ \E i \in 1..Len(s) : IsWhitespace(s[i])
    \/ \E i \in 1..(Len(s) - 1) : s[i] = "@" /\ s[i + 1] = "."

\* The plainest well-formed addresses: letters and digits, one "@", letters
\* and digits.
PlainAddress(s) ==
    \E i \in 2..(Len(s) - 1) :
        /\ s[i] = "@"
        /\ \A j \in (1..Len(s)) \ {i} : s[j] \in Alphanumeric

\* C19: ParseEmail fails for the empty string, for a string without "@" or
\* without a domain segment and for the other strings that are no address,
\* and succeeds, keeping the string, for a plain well-formed address; a
\* Subscribe whose name is valid answers 400 and writes nothing exactly when
\* ParseEmail fails on its address, and goes on with the address otherwise.
C19_InvalidEmailIsRejected ==
    \A p \in Procs :
        /\ (IsEmailCall(p) /\ Done(p))
             => /\ NotAnAddress(request[p].s) => ~response[p].ok
                /\ PlainAddress(request[p].s) => response[p].ok
                /\ response[p].ok => response[p].value = request[p].s
        /\ (IsSubscribe(p) /\ request[p].form.name = Str_le_guin)
             => LET email == request[p].form.email IN
                /\ NotAnAddress(email) => response[p].kind = "ValidationError"
                /\ PlainAddress(email) => response[p].kind # "ValidationError"
                /\ IF SubscriberEmail_parse(email).ok
                   THEN /\ response[p].kind # "ValidationError"
                        /\ locals[p].new_subscriber.email = email
                   ELSE /\ Done(p)
                        /\ response[p].kind = "ValidationError"
                        /\ SubscribeStatusCode(response[p]) = 400
                        /\ store = <<{}, {}>>
                        /\ email_server = <<>>

\* A Subscribe with a valid name and an empty address has answered 400.
C19_Witness ==
    \E p \in Procs :
        /\ IsSubscribe(p) /\ Done(p)
        /\ request[p].form = [name |-> Str_le_guin, email |-> <<>>]
        /\ SubscribeStatusCode(response[p]) = 400

---------------------------------------------------------------------------
(* Token generator                                                         *)

\* 25 characters, each of them alphanumeric.
IsToken(t) == Len(t) = TokenLen /\ \A i \in 1..Len(t) : t[i] \in Alphanumeric

\* C20: every token GenerateToken returns, and so every token a Subscribe
\* holds, writes in its transaction or has committed to the token table, is
\* 25 characters long and alphanumeric.
C20_TokenIs25Alphanumeric ==
    /\ \A p \in Procs :
         /\ (IsTokenCall(p) /\ Done(p)) => IsToken(response[p])
         /\ (IsSubscribe(p) /\ locals[p].subscription_token # <<>>)
                => IsToken(locals[p].subscription_token)
         /\ \A t \in transaction[p].subscription_tokens : IsToken(t.subscription_token)
    /\ \A t \in subscription_tokens : IsToken(t.subscription_token)

\* A Subscribe has committed the token it generated.
C20_Witness ==
    \E p \in Procs :
        /\ IsSubscribe(p)
        /\ TokenRow(locals[p].subscription_token, Uuid_new_v4(p)) \in subscription_tokens

---------------------------------------------------------------------------
(* Recipients of a Broadcast                                               *)

\* The entries of the recipient list of a Broadcast.
Recipients(p) == {locals[p].subscribers[i] : i \in 1..Len(locals[p].subscribers)}

C21_State ==
    \A p \in Procs :
        IsPublish(p)
            => \A i \in DispatchesBy(p) : Ok(email_server[i].to) \in Recipients(p)

C21_Step ==
    \A p \in Procs :
        PublishQueries(p)
            => LET confirmed == {r \in subscriptions : r.status = "confirmed"}
                   pending == {r \in subscriptions : r.status = "pending_confirmation"}
               IN /\ Len(locals'[p].subscribers) = Cardinality(confirmed)
                  /\ Recipients(p)' = {SubscriberEmail_parse(r.email) : r \in confirmed}
                  /\ \A r \in pending : Ok(r.email) \notin Recipients(p)'
                  /\ \A q \in Procs : \A r \in transaction[q].subscriptions :
                        Ok(r.email) \notin Recipients(p)'

\* C21: the recipient list of a Broadcast holds the addresses of exactly the
\* rows that are confirmed when its query runs, none of a pending or of an
\* uncommitted row, and a Broadcast, whether it succeeds or fails, dispatches
\* to addresses of its recipient list only.
C21_RecipientsWereConfirmed == [](C21_State) /\ [][C21_Step]_vars

\* A Broadcast has dispatched while a subscriber is pending.
C21_Witness ==
    \E p \in Procs :
        /\ IsPublish(p) /\ DispatchesBy(p) # {}
        /\ \E r \in subscriptions : r.status = "pending_confirmation"

\* C22: when a Broadcast has returned success, its dispatches are, in the
\* order of its recipient list, one to each entry with a valid address, each
\* with the title, the HTML content and the text content of the request and
\* each accepted by the mail API, and there is no other dispatch of it.
C22_SuccessfulBroadcastReachesEachRecipientOnce ==
    \A p \in Procs :
        (IsPublish(p) /\ Done(p) /\ response[p] = HttpResponse_Ok)
            => LET body == request[p].body
                   recipients == RecipientsUpTo(p, Len(locals[p].subscribers))
                   sent == DispatchSeq(p)
               IN /\ Len(sent) = Len(recipients)
                  /\ \A i \in 1..Len(sent) :
                        /\ sent[i].to = recipients[i].value
                        /\ sent[i].subject = body.title
                        /\ sent[i].html_body = body.content.html
                        /\ sent[i].text_body = body.content.text
                        /\ SendEmailOk(sent[i].answer)
                  /\ \A i, j \in 1..Len(sent) : sent[i].to = sent[j].to => i = j

\* A Broadcast over two recipients has returned success.
C22_Witness ==
    \E p \in Procs :
        /\ IsPublish(p) /\ Done(p) /\ response[p] = HttpResponse_Ok
        /\ Len(locals[p].subscribers) = 2
        /\ Cardinality(DispatchesBy(p)) = 2

---------------------------------------------------------------------------
(* Frame of the operations                                                 *)

\* Invocation p takes this step.
Steps(p) == pc'[p] # pc[p] \/ locals'[p] # locals[p]

C23_Step ==
    /\ subscription_tokens \subseteq subscription_tokens'
    /\ \A t \in subscription_tokens' \ subscription_tokens :
         ~TokenStored(t.subscription_token)
    /\ \A p \in Procs :
         (Steps(p) /\ request'[p].handler = "confirm")
            => /\ UNCHANGED subscription_tokens
               /\ (pc'[p] = "done" /\ response'[p] = HttpResponse_Ok)
                    => TokenStored(request[p].subscription_token)'

\* C23: a committed token row is never updated or deleted: every step keeps
\* every token row as it is and adds rows under new tokens only; a step of a
\* Confirm leaves the token table unchanged, so that the token a Confirm has
\* redeemed is still stored.
C23_TokensAreWriteOnce == [][C23_Step]_vars

\* A Confirm has succeeded and the token row it was given is in the table.
C23_Witness ==
    \E p \in Procs :
        /\ IsConfirm(p) /\ Done(p) /\ response[p] = HttpResponse_Ok
        /\ TokenRow(request[p].subscription_token, locals[p].subscriber_id)
                \in subscription_tokens

C24_Step ==
    \A p \in Procs :
        /\ (Steps(p) /\ request'[p].handler = "subscribe")
             => /\ subscriptions \subseteq subscriptions'
                /\ subscription_tokens \subseteq subscription_tokens'
                /\ \A r \in subscriptions' \ subscriptions : r.id = Uuid_new_v4(p)
                /\ \A t \in subscription_tokens' \ subscription_tokens :
                      t.subscriber_id = Uuid_new_v4(p)
        /\ (Steps(p) /\ request'[p].handler = "publish_newsletter")
             => /\ UNCHANGED store
                /\ UNCHANGED transaction
        /\ (subscriptions' # subscriptions /\ subscriptions \ subscriptions' # {})
             => \E q \in Procs : Steps(q) /\ request'[q].handler = "confirm"

\* C24: a step of a Subscribe, whether the call succeeds or fails, keeps
\* every committed subscriber row and token row as it is and adds rows of its
\* own subscriber only; a step of a Broadcast changes neither table and no
\* transaction; a committed subscriber row changes in a step of a Confirm only.
C24_OnlyConfirmMutatesSubscribers == [][C24_Step]_vars

\* With a subscriber stored, a Subscribe has failed at its insert and a
\* Broadcast has dispatched.
C24_Witness ==
    \E p, q \in Procs :
        /\ IsSubscribe(p) /\ Done(p) /\ response[p].context = CtxInsertSubscriber
        /\ IsPublish(q) /\ DispatchesBy(q) # {}
        /\ subscriptions # {}

C25_Step ==
    \A p \in Procs :
        (/\ pc[p] = "confirm_subscriber"
         /\ pc'[p] = "done"
         /\ response'[p] = HttpResponse_Ok)
        => LET id == SelectSubscriberId(subscription_tokens,
                                        request[p].subscription_token)
           IN /\ id = locals[p].subscriber_id
              /\ \A r \in subscriptions : r.id # id => r \in subscriptions'
              /\ \A r \in subscriptions :
                    r.id = id =>
                       \E r2 \in subscriptions' :
                          /\ r2.id = r.id
                          /\ r2.email = r.email
                          /\ r2.name = r.name
                          /\ r2.subscribed_at = r.subscribed_at
                          /\ r2.status = "confirmed"
              /\ Cardinality(subscriptions') = Cardinality(subscriptions)
              /\ UNCHANGED subscription_tokens

\* C25: the step in which a Confirm succeeds leaves every subscriber row whose
\* id is not the one bound to the presented token as it was, keeps the id,
\* email, name and subscription timestamp of the row with that id, whose
\* status becomes confirmed, and adds or removes no row.
C25_ConfirmChangesOnlyTheStatus == [][C25_Step]_vars

\* A Confirm has succeeded for a subscriber added by a Subscribe, next to the
\* subscriber that was there before.
C25_Witness ==
    \E p \in Procs :
        /\ IsConfirm(p) /\ Done(p) /\ response[p] = HttpResponse_Ok
        /\ locals[p].subscriber_id \in Procs
        /\ \E r \in subscriptions :
              r.id = locals[p].subscriber_id /\ r.status = "confirmed"
        /\ EarlierSubscriptions \subseteq subscriptions

C26_State ==
    \A p \in Procs :
        (IsConfirm(p) /\ Done(p))
        => \/ response[p] = HttpResponse_Ok
           \/ response[p] = UnknownToken
           \/ response[p] = UnexpectedError(CtxGetSubscriberId, SqlxIo)
           \/ response[p] = UnexpectedError(CtxConfirmSubscriber, SqlxIo)

C26_Step ==
    \A p \in Procs :
        /\ (ConfirmLooksUp(p) /\ response'[p] = UnknownToken)
             => /\ ~TokenStored(request'[p].subscription_token)
                /\ UNCHANGED store
        /\ (ConfirmLooksUp(p) /\ pc'[p] = "done" /\ response'[p] # UnknownToken)
             => /\ response'[p] = UnexpectedError(CtxGetSubscriberId, SqlxIo)
                /\ locals'[p].subscriber_id = 0
                /\ UNCHANGED store
        /\ (ConfirmLooksUp(p) /\ pc'[p] # "done")
             => /\ TokenStored(request'[p].subscription_token)
                /\ pc'[p] = "confirm_subscriber"
        /\ (pc[p] = "confirm_subscriber" /\ Steps(p) /\ response'[p] # HttpResponse_Ok)
             => /\ response'[p] = UnexpectedError(CtxConfirmSubscriber, SqlxIo)
                /\ UNCHANGED store

\* C26: a Confirm ends with Ok, UnknownToken or an UnexpectedError of the
\* lookup or of the update; it answers UnknownToken only when no committed
\* token row matches; a Confirm that ends at its lookup with anything else
\* has an UnexpectedError of the lookup, has bound no subscriber and leaves
\* the store unchanged, so the update is not reached; a failed update is an
\* UnexpectedError and changes no subscriber.
C26_UnknownTokenIsNotAStoreFailure == [](C26_State) /\ [][C26_Step]_vars

\* An unmatched token next to a failed lookup of a stored token, whose
\* subscriber is still pending.
C26_Witness ==
    \E p, q \in Procs :
        /\ IsConfirm(p) /\ Done(p) /\ response[p] = UnknownToken
        /\ IsConfirm(q) /\ Done(q)
        /\ response[q] = UnexpectedError(CtxGetSubscriberId, SqlxIo)
        /\ \E t \in subscription_tokens :
              /\ t.subscription_token = request[q].subscription_token
              /\ ~Confirmed(t.subscriber_id)

\* The result a workflow gives when its dispatch to a recipient has failed.
DispatchError(p, recipient) ==
    UnexpectedError(IF IsSubscribe(p) THEN CtxSendConfirmation
                                      ELSE CtxSendNewsletter(recipient),
                    ReqwestError)

\* C27: a dispatch answered 200 does not fail its workflow, which goes on (a
\* Subscribe ends with Ok, a Broadcast moves to its next recipient); a
\* dispatch answered 500 or not answered before the timeout ends its workflow
\* at once with the UnexpectedError of a transport failure, the same for
\* both, so that it is the last dispatch of the invocation.
C27_DispatchSucceedsExactlyOn200 ==
    \A i \in 1..Len(email_server) :
        LET m == email_server[i]
            p == m.by
            last == \A j \in DispatchesBy(p) : j <= i
        IN /\ m.answer = "200"
                => /\ last => ~(Done(p) /\ response[p] = DispatchError(p, m.to))
                   /\ (IsSubscribe(p) /\ Done(p)) => response[p] = HttpResponse_Ok
           /\ m.answer \in {"500", "timeout"}
                => /\ last
                   /\ Done(p)
                   /\ response[p] = DispatchError(p, m.to)

\* One dispatch answered 200, one answered 500 and one that timed out, the
\* last two made by two Broadcasts to one recipient: the first sender ended
\* with Ok, the other two with the same error.
C27_Witness ==
    \E i, j, k \in 1..Len(email_server) :
        /\ email_server[i].answer = "200"
        /\ Done(email_server[i].by)
        /\ response[email_server[i].by] = HttpResponse_Ok
        /\ email_server[j].answer = "500"
        /\ email_server[k].answer = "timeout"
        /\ IsPublish(email_server[j].by) /\ IsPublish(email_server[k].by)
        /\ email_server[j].to = email_server[k].to
        /\ response[email_server[j].by] = response[email_server[k].by]
        /\ response[email_server[j].by] =
              DispatchError(email_server[j].by, email_server[j].to)

\* The token was generated by a Subscribe that has not committed yet.
Uncommitted(subscription_token) ==
    \E p \in Procs :
        /\ IsSubscribe(p) /\ pc[p] = "commit"
        /\ locals[p].subscription_token = subscription_token

C28_State ==
    \A r \in subscriptions :
        r.status = "confirmed"
        => /\ \E t \in subscription_tokens : t.subscriber_id = r.id
           /\ r.id \in Procs
                => \E q \in Procs :
                      /\ IsConfirm(q) /\ Done(q) /\ response[q] = HttpResponse_Ok
                      /\ locals[q].subscriber_id = r.id
                      /\ TokenRow(request[q].subscription_token, r.id)
                            \in subscription_tokens

C28_Step ==
    \A q \in Procs :
        (ConfirmLooksUp(q) /\ Uncommitted(request'[q].subscription_token))
        => /\ pc'[q] = "done"
           /\ \/ response'[q] = UnknownToken
              \/ response'[q] = UnexpectedError(CtxGetSubscriberId, SqlxIo)
           /\ UNCHANGED store

\* C28: every confirmed subscriber has a committed token row bound to it,
\* and one that was confirmed in this run has a successful Confirm that
\* presented a token committed for it; a Confirm whose lookup runs while the
\* token is held by a transaction that is still open ends at that lookup,
\* with UnknownToken unless the lookup itself fails, and changes no row.
C28_ConfirmedOnlyByACommittedToken == [](C28_State) /\ [][C28_Step]_vars

\* A Confirm has answered UnknownToken to the token that a Subscribe that
\* arrived before it holds in its open transaction, and nobody was confirmed.
C28_Witness ==
    \E p, q \in Procs :
        /\ p < q
        /\ IsSubscribe(p) /\ pc[p] = "commit"
        /\ IsConfirm(q) /\ Done(q) /\ response[q] = UnknownToken
        /\ request[q].subscription_token = locals[p].subscription_token
        /\ ~Confirmed(locals[p].subscriber_id)

C29_State ==
    \A p \in Procs :
        IsPublish(p)
        => /\ \A i \in DispatchesBy(p) : Ok(email_server[i].to) \in Recipients(p)
           /\ LET sent == DispatchSeq(p)
                  list == RecipientsUpTo(p, Len(locals[p].subscribers))
              IN /\ Len(sent) <= Len(list)
                 /\ \A k \in 1..Len(sent) : sent[k].to = list[k].value

C29_Step ==
    \A p \in Procs :
        /\ PublishQueries(p)
             => /\ Len(locals'[p].subscribers)
                      = Cardinality(SelectConfirmed(subscriptions))
                /\ \A r \in SelectConfirmed(subscriptions) :
                      \E i \in 1..Len(locals'[p].subscribers) :
                         locals'[p].subscribers[i] = Ok(r.email)
                /\ \A i \in 1..Len(email_server') : email_server'[i].by # p
        /\ (IsPublish(p) /\ pc[p] # "get_confirmed_subscribers")
             => /\ locals'[p].subscribers = locals[p].subscribers
                /\ \A r \in subscriptions' :
                      (r.status = "confirmed" /\ ~Confirmed(r.id))
                      => /\ Ok(r.email) \notin Recipients(p)'
                         /\ DispatchesTo(p, r.email)' = {}

\* C29: the step in which the query of a Broadcast returns reads one entry
\* per subscriber confirmed at that moment, before any dispatch of the
\* Broadcast; the recipient list never changes afterwards; every dispatch of the Broadcast goes to an address of
\* that list, the k-th dispatch to its k-th address, so that no entry of the
\* list gets two; a subscriber that becomes confirmed after the query is not
\* in the list and has no dispatch of that Broadcast.
C29_BroadcastWorksOnASnapshot == [](C29_State) /\ [][C29_Step]_vars

\* A Broadcast has finished its dispatches; a Confirm has confirmed a
\* subscriber who is not in the list of the Broadcast, hence after its query,
\* and who got nothing from it.
C29_Witness ==
    \E p, q \in Procs :
        /\ IsPublish(p) /\ Done(p) /\ response[p] = HttpResponse_Ok
        /\ DispatchesBy(p) # {}
        /\ IsConfirm(q) /\ Done(q) /\ response[q] = HttpResponse_Ok
        /\ \E r \in subscriptions :
              /\ r.id = locals[q].subscriber_id
              /\ r.status = "confirmed"
              /\ Ok(r.email) \notin Recipients(p)
              /\ DispatchesTo(p, r.email) = {}


----------------------------------------------------------------------------
(* Termination                                                             *)

C30_State ==
    \A p \in Procs :
        /\ Done(p) => transaction[p] = NoTransaction
        /\ IsPublish(p) => Len(DispatchSeq(p)) <= Len(locals[p].subscribers)

\* An invocation that has ended stays ended, with the result it returned.
C30_Step ==
    \A p \in Procs : Done(p) => Done(p)' /\ response'[p] = response[p]

\* No invocation is under way: each has not arrived or has returned.
Quiescent == \A p \in Procs : pc[p] = "idle" \/ Done(p)

\* C30: when every awaited call returns, the invocations that have arrived
\* all end, each with a result that it keeps: from some moment on none is
\* under way; an invocation that has ended holds no open transaction, and a
\* Broadcast makes no more dispatches than its recipient list has rows.
C30_EveryInvocationTerminates ==
    /\ [](C30_State)
    /\ [][C30_Step]_vars
    /\ <>[]Quiescent

\* A Subscribe that failed inside its transaction, a Confirm and a Broadcast
\* with a dispatch have all ended.
C30_Witness ==
    \E p, q, r \in Procs :
        /\ IsSubscribe(p) /\ Done(p) /\ response[p].context \in TransactionFailures
        /\ IsConfirm(q) /\ Done(q)
        /\ IsPublish(r) /\ Done(r) /\ DispatchesBy(r) # {}
====
